---- MODULE Spec2Model ----
(***************************************************************************)
(* Aadhaar Friction Index: the Index Aggregator (src/src/index.py) and the *)
(* helpers of src/src/utils.py it calls.                                   *)
(*                                                                         *)
(* Numbers.  Python floats are modelled as exact fixed-point numbers       *)
(* [cent, nano] standing for cent/100 + nano/10^9, kept in the normal form *)
(* 0 <= nano < 10^7, so that equality is structural and the order is the   *)
(* lexicographic one.  NaN is a separate value of the AFI column.          *)
(* A quotient (AFI, national_percentile) is kept as numerator/denominator. *)
(*                                                                         *)
(* Tables.  A dataframe is a sequence of rows; a row is a function from    *)
(* the column names of the table to the values of the row.                 *)
(***************************************************************************)
EXTENDS Integers, Sequences, FiniteSets, TLC

VARIABLES
    entry,       \* the function of index.py the caller invoked
    pc,          \* position inside that call
    signals_df,  \* calculate_afi: the signals_df argument
    weights,     \* calculate_afi: the weights argument
    component_analysis,  \* calculate_afi: the result of analyze_components
    df,          \* the local dataframe df of the running function
    error,       \* the exception that ended the call, if any
    written,     \* the output files save_csv has opened
    csv,         \* preprocess_*: the table in the file at filepath
    cleaned,     \* preprocess_*: the dataset an earlier run returned
    run,         \* preprocess_*: 1 for the first run on a file, 2 for the next
    biometric_df,    \* calculate_all_signals: the cleaned biometric dataset
    demographic_df,  \* calculate_all_signals: the cleaned demographic dataset
    enrolment_df,    \* calculate_all_signals: the cleaned enrolment dataset
    uis_df,      \* calculate_all_signals: the result of calculate_uis
    ris_df,      \* calculate_all_signals: the result of calculate_ris
    bss_df,      \* calculate_all_signals: the result of calculate_bss
    tsd_df       \* calculate_all_signals: the result of calculate_tsd

indexVars == <<signals_df, weights, component_analysis, written>>

preVars == <<csv, cleaned, run>>

sigVars == <<biometric_df, demographic_df, enrolment_df, uis_df, ris_df, bss_df, tsd_df>>

vars == <<entry, pc, df, error, indexVars, preVars, sigVars>>

---------------------------------------------------------------------------
(* Bounds of the model *)

\* largest number of rows of an input table
MaxRows == 3

\* largest number of rows of a raw file
MaxRawRows == 3

\* largest count in a cleaned dataset
MaxCount == 2

---------------------------------------------------------------------------
(* Fixed-point arithmetic standing for Python float arithmetic *)

NanoPerCent == 10^7

Fx(c, n) == [cent |-> c, nano |-> n]

Carry(x) == [cent |-> x.cent + (x.nano \div NanoPerCent), nano |-> x.nano % NanoPerCent]

FxZero == Fx(0, 0)

FxAdd(x, y) == Carry(Fx(x.cent + y.cent, x.nano + y.nano))

FxSub(x, y) == Carry(Fx(x.cent - y.cent, x.nano - y.nano))

\* k * x for an integer k
FxScale(k, x) == Carry(Fx(k * x.cent, k * x.nano))

FxLess(x, y) == x.cent < y.cent \/ (x.cent = y.cent /\ x.nano < y.nano)

FxLeq(x, y) == x = y \/ FxLess(x, y)

FxAbs(x) == IF FxLess(x, FxZero) THEN FxSub(FxZero, x) ELSE x

RECURSIVE FxSum(_)
FxSum(s) == IF s = <<>> THEN FxZero ELSE FxAdd(Head(s), FxSum(Tail(s)))

---------------------------------------------------------------------------
(* Tables *)

Columns(t) == IF t = <<>> THEN {} ELSE DOMAIN t[1]

Column(t, c) == [i \in 1..Len(t) |-> t[i][c]]

\* df[c] = values, the other columns kept
WithColumn(t, c, values) ==
    [i \in 1..Len(t) |-> [k \in (DOMAIN t[i]) \cup {c} |-> IF k = c THEN values[i] ELSE t[i][k]]]

Restrict(t, cols) == [i \in 1..Len(t) |-> [k \in cols |-> t[i][k]]]

NoError == [kind |-> "none", detail |-> {}]

---------------------------------------------------------------------------
(* AFI component weights *)

WEIGHTS ==
    [UIS |-> Fx(30, 0), RIS |-> Fx(25, 0), BSS |-> Fx(25, 0), TSD |-> Fx(20, 0)]

---------------------------------------------------------------------------
(* validate_signals *)

required_columns == {"state", "district", "period", "UIS", "RIS", "BSS", "TSD"}

signal_cols == <<"UIS", "RIS", "BSS", "TSD">>

HasNegative(t, c) == \E i \in 1..Len(t) : t[i][c] < 0

\* validate_signals looking for negative values before missing columns
validate_signals_NegativeFirst(t) ==
    LET missing == required_columns \ Columns(t)
        negative == {k \in 1..Len(signal_cols) :
                        signal_cols[k] \in Columns(t) /\ HasNegative(t, signal_cols[k])}
        first == CHOOSE k \in negative : \A j \in negative : k <= j
    IN  IF negative # {}
        THEN [kind |-> "ValueError: Negative values found", detail |-> {signal_cols[first]}]
        ELSE IF missing # {}
             THEN [kind |-> "ValueError: Missing required columns", detail |-> missing]
             ELSE NoError

\* the exception validate_signals raises on t, NoError when it returns True
validate_signals(t) ==
    LET missing == required_columns \ Columns(t)
        negative == {k \in 1..Len(signal_cols) : HasNegative(t, signal_cols[k])}
        first == CHOOSE k \in negative : \A j \in negative : k <= j
    IN  IF missing # {}
        THEN [kind |-> "ValueError: Missing required columns", detail |-> missing]
        ELSE IF negative # {}
             THEN [kind |-> "ValueError: Negative values found", detail |-> {signal_cols[first]}]
             ELSE NoError

---------------------------------------------------------------------------
(* Inputs *)

States == {"S1", "S2"}

\* UIS, RIS, BSS, TSD of the rows the input tables are built from
SignalProfiles ==
    { <<10, 20, 30, 40>>, <<0, 0, 0, 0>>, <<100, 100, 100, 100>>,
      <<-5, 20, 30, 40>>, <<10, 20, 30, -1>> }

SignalRow(s, p) ==
    [state |-> s, district |-> "D1", period |-> "2024-01",
     UIS |-> p[1], RIS |-> p[2], BSS |-> p[3], TSD |-> p[4]]

SignalRows == {SignalRow(s, p) : s \in States, p \in SignalProfiles}

TablesOver(rows) == UNION {[1..n -> rows] : n \in 1..MaxRows}

\* column sets of the tables handed to calculate_afi
ColumnChoices ==
    { required_columns,
      required_columns \ {"UIS"},
      required_columns \ {"state", "TSD"} }

\* weights mappings handed to calculate_afi
WeightChoices ==
    { WEIGHTS,
      [UIS |-> Fx(40, 0), RIS |-> Fx(20, 0), BSS |-> Fx(20, 0), TSD |-> Fx(20, 0)],
      [UIS |-> Fx(29, 0), RIS |-> Fx(25, 0), BSS |-> Fx(25, 0), TSD |-> Fx(20, 0)],
      [UIS |-> Fx(31, 0), RIS |-> Fx(25, 0), BSS |-> Fx(25, 0), TSD |-> Fx(20, 0)],
      [UIS |-> Fx(30, 1), RIS |-> Fx(25, 0), BSS |-> Fx(25, 0), TSD |-> Fx(20, 0)],
      [UIS |-> Fx(30, 0), RIS |-> Fx(25, 0), BSS |-> Fx(25, 0), TSD |-> Carry(Fx(20, -1))],
      [UIS |-> Fx(30, 0), RIS |-> Fx(25, 20000), BSS |-> Fx(25, 0), TSD |-> Fx(20, 0)] }

---------------------------------------------------------------------------
(* calculate_afi_raw *)

\* 1.0
FxOne == Fx(100, 0)

\* numpy.isclose defaults: atol = 1e-8, rtol = 1e-5
atol == Fx(0, 10)

RtolInverse == 10^5

\* rtol * |b|, for b a whole number of cents
RtolTimes(b) == Carry(Fx(0, FxAbs(b).cent * (NanoPerCent \div RtolInverse)))

\* isclose replaced by the exact comparison a == b
isclose_Exact(a, b) == a = b

\* np.isclose(a, b): |a - b| <= atol + rtol * |b|
isclose(a, b) == FxLeq(FxAbs(FxSub(a, b)), FxAdd(atol, RtolTimes(b)))

\* sum(weights.values())
weight_sum(w) == FxSum(<<w.UIS, w.RIS, w.BSS, w.TSD>>)

\* WeightedSum with the RIS and TSD weights exchanged
WeightedSum_SwappedWeights(r, w) ==
    FxAdd(FxAdd(FxAdd(FxScale(r.UIS, w.UIS), FxScale(r.RIS, w.TSD)),
                FxScale(r.BSS, w.BSS)),
          FxScale(r.TSD, w.RIS))

\* weights['UIS'] * df['UIS'] + ... + weights['TSD'] * df['TSD'], for one row
WeightedSum(r, w) ==
    FxAdd(FxAdd(FxAdd(FxScale(r.UIS, w.UIS), FxScale(r.RIS, w.RIS)),
                FxScale(r.BSS, w.BSS)),
          FxScale(r.TSD, w.TSD))

\* [error, df]: the exception raised, or NoError and the dataframe returned
calculate_afi_raw(t, w) ==
    IF ~isclose(weight_sum(w), FxOne)
    THEN [error |-> [kind |-> "ValueError: Weights must sum to 1.0", detail |-> {}],
          df |-> t]
    ELSE [error |-> NoError,
          df |-> WithColumn(t, "AFI_raw", [i \in 1..Len(t) |-> WeightedSum(t[i], w)])]

---------------------------------------------------------------------------
(* normalize_afi *)

RECURSIVE SeriesMin(_)
SeriesMin(s) ==
    IF Len(s) = 1 THEN s[1]
    ELSE LET m == SeriesMin(Tail(s)) IN IF FxLess(s[1], m) THEN s[1] ELSE m

RECURSIVE SeriesMax(_)
SeriesMax(s) ==
    IF Len(s) = 1 THEN s[1]
    ELSE LET m == SeriesMax(Tail(s)) IN IF FxLess(m, s[1]) THEN s[1] ELSE m

\* a float NaN in the AFI column
NaN == [nan |-> TRUE, num |-> FxZero, den |-> FxZero]

\* the float n / d of a column whose values share the denominator d >= 0;
\* 0 / 0 is NaN (a zero d with a nonzero n does not arise: d = 0 means
\* all values of the column are equal, so every n is 0)
Quotient(n, d) ==
    IF d = FxZero THEN NaN ELSE [nan |-> FALSE, num |-> n, den |-> d]

\* normalize_afi taking min and max within the state of each row
normalize_afi_PerState(t) ==
    LET raw(i) == Column(SelectSeq(t, LAMBDA r : r.state = t[i].state), "AFI_raw")
    IN  WithColumn(t, "AFI",
            [i \in 1..Len(t) |->
                Quotient(FxScale(100, FxSub(t[i].AFI_raw, SeriesMin(raw(i)))),
                         FxSub(SeriesMax(raw(i)), SeriesMin(raw(i))))])

normalize_afi(t) ==
    LET afi_min == SeriesMin(Column(t, "AFI_raw"))
        afi_max == SeriesMax(Column(t, "AFI_raw"))
    IN  WithColumn(t, "AFI",
            [i \in 1..Len(t) |->
                Quotient(FxScale(100, FxSub(t[i].AFI_raw, afi_min)), FxSub(afi_max, afi_min))])

---------------------------------------------------------------------------
(* add_rankings *)

\* a < b for two non-NaN values of one AFI column (they share the denominator)
AFILess(a, b) == FxLess(a.num, b.num)

RemoveAt(s, k) == [i \in 1..(Len(s) - 1) |-> IF i < k THEN s[i] ELSE s[i + 1]]

\* the values of a column in descending order
RECURSIVE SortDescending(_)
SortDescending(s) ==
    IF s = <<>> THEN <<>>
    ELSE LET k == CHOOSE i \in 1..Len(s) : \A j \in 1..Len(s) : ~AFILess(s[i], s[j])
         IN  <<s[k]>> \o SortDescending(RemoveAt(s, k))

\* the positions v takes in the descending order of s
Positions(v, s) == LET sorted == SortDescending(s) IN {p \in 1..Len(s) : sorted[p] = v}

RECURSIVE SumOf(_)
SumOf(S) == IF S = {} THEN 0 ELSE LET x == CHOOSE y \in S : TRUE IN x + SumOf(S \ {x})

\* rank with method='max': the last of the tied positions
RankMin_Max(v, s) == CHOOSE p \in Positions(v, s) : \A q \in Positions(v, s) : q <= p

\* rank with method='dense': one more than the number of distinct greater values
RankMin_Dense(v, s) ==
    1 + Cardinality({s[j] : j \in {q \in 1..Len(s) : AFILess(v, s[q])}})

\* Series.rank(ascending=False, method='min'), for the value v of the series s
RankMin(v, s) == CHOOSE p \in Positions(v, s) : \A q \in Positions(v, s) : p <= q

\* the percentile rank taken ascending
calculate_percentile_rank_Ascending(v, s) ==
    [num |-> 100 * SumOf({Len(s) + 1 - p : p \in Positions(v, s)}),
     den |-> Cardinality(Positions(v, s)) * Len(s)]

\* Series.rank(pct=True, ascending=False) * 100, for the value v of the series s:
\* the average of the tied positions over the number of values, as a quotient
calculate_percentile_rank(v, s) ==
    [num |-> 100 * SumOf(Positions(v, s)), den |-> Cardinality(Positions(v, s)) * Len(s)]

\* the AFI values of the whole table, whatever the state
GroupAFI_AllStates(t, st) == Column(t, "AFI")

\* the AFI values of the rows of state st: the group of df.groupby('state')
GroupAFI(t, st) == Column(SelectSeq(t, LAMBDA r : r.state = st), "AFI")

\* national_rank taken ascending: the lowest AFI first
national_rank_Ascending(t, i) ==
    1 + Cardinality({j \in 1..Len(t) : AFILess(t[j].AFI, t[i].AFI)})

national_rank(t, i) == RankMin(t[i].AFI, Column(t, "AFI"))

\* state_rank without the groupby
state_rank_Ungrouped(t, i) == RankMin(t[i].AFI, Column(t, "AFI"))

state_rank(t, i) == RankMin(t[i].AFI, GroupAFI(t, t[i].state))

national_percentile(t, i) == calculate_percentile_rank(t[i].AFI, Column(t, "AFI"))

\* [error, df]: astype(int) raises on the NaN rank of a NaN value
add_rankings(t) ==
    IF \E i \in 1..Len(t) : t[i].AFI.nan
    THEN [error |-> [kind |-> "IntCastingNaNError", detail |-> {"national_rank"}], df |-> t]
    ELSE [error |-> NoError,
          df |-> WithColumn(
                    WithColumn(
                        WithColumn(t, "national_rank",
                                   [i \in 1..Len(t) |-> national_rank(t, i)]),
                        "state_rank", [i \in 1..Len(t) |-> state_rank(t, i)]),
                    "national_percentile", [i \in 1..Len(t) |-> national_percentile(t, i)])]

---------------------------------------------------------------------------
(* add_categories *)

\* score <= k in place of score < k
ScoreLess_Inclusive(score, k) == ~score.nan /\ FxLeq(score.num, FxScale(k, score.den))

\* score < k for a float score and an integer k; every comparison with NaN is False
ScoreLess(score, k) == ~score.nan /\ FxLess(score.num, FxScale(k, score.den))

categorize_afi(score) ==
    IF ScoreLess(score, 20) THEN "Very Low Friction"
    ELSE IF ScoreLess(score, 40) THEN "Low Friction"
    ELSE IF ScoreLess(score, 60) THEN "Moderate Friction"
    ELSE IF ScoreLess(score, 80) THEN "High Friction"
    ELSE "Very High Friction"

add_categories(t) ==
    WithColumn(t, "friction_category", [i \in 1..Len(t) |-> categorize_afi(t[i].AFI)])

---------------------------------------------------------------------------
(* Inputs of the direct calls of add_rankings and add_categories *)

\* the float m / 1000
Score(m) == [nan |-> FALSE, num |-> Fx(m, 0), den |-> Fx(1000, 0)]

ScoreRow(s, a) == [state |-> s, district |-> "D1", period |-> "2024-01", AFI |-> a]

\* AFI values of the tables handed to add_rankings
RankScores == {Score(50000), Score(90000), Score(100000), NaN}

\* AFI values of the tables handed to add_categories
CategoryScores ==
    { Score(0), Score(19999), Score(20000), Score(39999), Score(40000), Score(50000),
      Score(59999), Score(60000), Score(79999), Score(80000), Score(100000), NaN }

RankRows == {ScoreRow(s, a) : s \in States, a \in RankScores}

CategoryRows == {ScoreRow("S1", a) : a \in CategoryScores}

---------------------------------------------------------------------------
(* analyze_components *)

\* component_analysis before analyze_components has run
NoAnalysis == [average_contributions |-> <<>>]

\* (df[comp] * WEIGHTS[comp]).mean() for the four components: the sum num of
\* the weighted values over the number den of rows
average_contributions(t) ==
    [comp \in {"UIS", "RIS", "BSS", "TSD"} |->
        [num |-> FxSum([i \in 1..Len(t) |-> FxScale(t[i][comp], WEIGHTS[comp])]),
         den |-> Len(t)]]

\* the analysis analyze_components returns, of which the average
\* contributions are kept here
analyze_components(t) == [average_contributions |-> average_contributions(t)]

---------------------------------------------------------------------------
(* calculate_afi: the sort and the three output files *)

\* DataFrame.sort_values('AFI', ascending=False): the arrangements of the rows
\* of t in descending AFI order.  The default sort kind is quicksort, which
\* does not fix the order of rows of equal AFI.  (No AFI is NaN here:
\* add_rankings has raised on a NaN before the sort is reached.)
RECURSIVE sort_values(_)
sort_values(t) ==
    IF t = <<>> THEN {<<>>}
    ELSE LET first == {i \in 1..Len(t) :
                          \A j \in 1..Len(t) : ~AFILess(t[i].AFI, t[j].AFI)}
         IN  UNION {{<<t[k]>> \o rest : rest \in sort_values(RemoveAt(t, k))} :
                    k \in first}

full_file == "aadhaar_friction_index.csv"

ranked_file == "aadhaar_friction_index_ranked.csv"

index_only_file == "aadhaar_friction_index_only.csv"

ranked_columns ==
    {"state", "district", "period", "AFI", "national_rank", "state_rank",
     "national_percentile", "friction_category"}

index_only_columns == {"state", "district", "period", "AFI"}

\* a file of the output directory: the columns to_csv was given, and whether
\* to_csv wrote the table to the end
OutputFile(file, columns, complete) ==
    [file |-> file, columns |-> columns, complete |-> complete]

---------------------------------------------------------------------------
(* The calls *)

InitCalculateAfi ==
    /\ entry = "calculate_afi"
    /\ \E t \in TablesOver(SignalRows), cols \in ColumnChoices, w \in WeightChoices :
          /\ cols # required_columns => w = WEIGHTS
          /\ signals_df = Restrict(t, cols)
          /\ weights = w
    /\ df = <<>>

InitAddRankings ==
    /\ entry = "add_rankings"
    /\ signals_df = <<>>
    /\ weights = WEIGHTS
    /\ df \in TablesOver(RankRows)

InitAddCategories ==
    /\ entry = "add_categories"
    /\ signals_df = <<>>
    /\ weights = WEIGHTS
    /\ df \in TablesOver(CategoryRows)

\* no preprocess_* call is under way
NoPreprocessing == csv = <<>> /\ cleaned = <<>> /\ run = 0

\* no calculate_all_signals call is under way
NoSignals ==
    /\ biometric_df = <<>> /\ demographic_df = <<>> /\ enrolment_df = <<>>
    /\ uis_df = <<>> /\ ris_df = <<>> /\ bss_df = <<>> /\ tsd_df = <<>>

Init ==
    /\ pc = "start"
    /\ error = NoError
    /\ written = {}
    /\ component_analysis = NoAnalysis
    /\ NoPreprocessing
    /\ NoSignals
    /\ InitCalculateAfi \/ InitAddRankings \/ InitAddCategories

\* calculate_afi: validate_signals(signals_df)
Validate ==
    /\ entry = "calculate_afi" /\ pc = "start"
    /\ LET e == validate_signals(signals_df)
       IN  /\ error' = e
           /\ pc' = IF e = NoError THEN "validated" ELSE "error"
    /\ UNCHANGED <<entry, signals_df, weights, component_analysis, df, written>>
    /\ UNCHANGED <<preVars, sigVars>>

\* calculate_afi: df = calculate_afi_raw(signals_df, weights)
CalculateAfiRaw ==
    /\ entry = "calculate_afi" /\ pc = "validated"
    /\ LET r == calculate_afi_raw(signals_df, weights)
       IN  /\ error' = r.error
           /\ pc' = IF r.error = NoError THEN "raw" ELSE "error"
           /\ df' = IF r.error = NoError THEN r.df ELSE df
    /\ UNCHANGED <<entry, signals_df, weights, component_analysis, written>>
    /\ UNCHANGED <<preVars, sigVars>>

\* calculate_afi: df = normalize_afi(df)
NormalizeAfi ==
    /\ entry = "calculate_afi" /\ pc = "raw"
    /\ df' = normalize_afi(df)
    /\ pc' = "normalized"
    /\ UNCHANGED <<entry, signals_df, weights, component_analysis, error, written>>
    /\ UNCHANGED <<preVars, sigVars>>

\* df = add_rankings(df), inside calculate_afi or called on its own
AddRankings ==
    /\ \/ entry = "calculate_afi" /\ pc = "normalized"
       \/ entry = "add_rankings" /\ pc = "start"
    /\ LET r == add_rankings(df)
       IN  /\ error' = r.error
           /\ pc' = IF r.error # NoError THEN "error"
                    ELSE IF entry = "calculate_afi" THEN "ranked" ELSE "done"
           /\ df' = IF r.error = NoError THEN r.df ELSE df
    /\ UNCHANGED <<entry, signals_df, weights, component_analysis, written>>
    /\ UNCHANGED <<preVars, sigVars>>

\* df = add_categories(df), inside calculate_afi or called on its own
AddCategories ==
    /\ \/ entry = "calculate_afi" /\ pc = "ranked"
       \/ entry = "add_categories" /\ pc = "start"
    /\ df' = add_categories(df)
    /\ pc' = IF entry = "calculate_afi" THEN "categorized" ELSE "done"
    /\ UNCHANGED <<entry, signals_df, weights, component_analysis, error, written>>
    /\ UNCHANGED <<preVars, sigVars>>

\* calculate_afi: component_analysis = analyze_components(df); df is left as
\* it is
AnalyzeComponents ==
    /\ entry = "calculate_afi" /\ pc = "categorized"
    /\ component_analysis' = analyze_components(df)
    /\ pc' = "analyzed"
    /\ UNCHANGED <<entry, signals_df, weights, df, error, written>>
    /\ UNCHANGED <<preVars, sigVars>>

\* calculate_afi: df = df.sort_values('AFI', ascending=False)
SortValues ==
    /\ entry = "calculate_afi" /\ pc = "analyzed"
    /\ df' \in sort_values(df)
    /\ pc' = "sorted"
    /\ UNCHANGED <<entry, signals_df, weights, component_analysis, error, written>>
    /\ UNCHANGED <<preVars, sigVars>>

\* save_csv(df[columns], output_dir + file): to_csv either writes the whole
\* table, or raises having created the file or not, and save_csv re-raises
SaveCsv(file, columns, from, to) ==
    /\ entry = "calculate_afi" /\ pc = from
    /\ \/ /\ written' = written \cup {OutputFile(file, columns, TRUE)}
          /\ pc' = to
          /\ error' = error
       \/ /\ written' \in {written, written \cup {OutputFile(file, columns, FALSE)}}
          /\ pc' = "error"
          /\ error' = [kind |-> "OSError", detail |-> {file}]
    /\ UNCHANGED <<entry, signals_df, weights, component_analysis, df>>
    /\ UNCHANGED <<preVars, sigVars>>

\* calculate_afi: save_csv(df, ...aadhaar_friction_index.csv)
SaveFull == SaveCsv(full_file, Columns(df), "sorted", "saved_full")

\* calculate_afi: save_csv(ranked_df, ...aadhaar_friction_index_ranked.csv)
SaveRanked == SaveCsv(ranked_file, ranked_columns, "saved_full", "saved_ranked")

\* calculate_afi: save_csv(index_only, ...aadhaar_friction_index_only.csv),
\* after which calculate_afi prints its summary and returns df
SaveIndexOnly == SaveCsv(index_only_file, index_only_columns, "saved_ranked", "done")

Next ==
    \/ Validate
    \/ CalculateAfiRaw
    \/ NormalizeAfi
    \/ AddRankings
    \/ AddCategories
    \/ AnalyzeComponents
    \/ SortValues
    \/ SaveFull
    \/ SaveRanked
    \/ SaveIndexOnly

Spec == Init /\ [][Next]_vars

---------------------------------------------------------------------------
(* preprocessing.py: text, dates, counts and missing values *)

\* A cell of the state or district column is the sequence of its characters;
\* a cell of the period column is the date it spells, <<year, month, day>>
\* or <<year, month>>; a cell of a count column is a number of CountUnit-ths
\* or the missing value (NaN) of pandas.
LowerCase ==
    << "a", "b", "c", "d", "e", "f", "g", "h", "i", "j", "k", "l", "m",
       "n", "o", "p", "q", "r", "s", "t", "u", "v", "w", "x", "y", "z" >>

UpperCase ==
    << "A", "B", "C", "D", "E", "F", "G", "H", "I", "J", "K", "L", "M",
       "N", "O", "P", "Q", "R", "S", "T", "U", "V", "W", "X", "Y", "Z" >>

IsLetter(c) == \E i \in 1..Len(LowerCase) : c \in {LowerCase[i], UpperCase[i]}

\* str.lower() of one character
lower(c) ==
    IF \E i \in 1..Len(UpperCase) : UpperCase[i] = c
    THEN LowerCase[CHOOSE i \in 1..Len(UpperCase) : UpperCase[i] = c]
    ELSE c

\* str.upper() of one character
upper(c) ==
    IF \E i \in 1..Len(LowerCase) : LowerCase[i] = c
    THEN UpperCase[CHOOSE i \in 1..Len(LowerCase) : LowerCase[i] = c]
    ELSE c

\* str.strip(): leading and trailing blanks removed
strip(s) ==
    LET inner == {i \in 1..Len(s) : s[i] # " "}
    IN  IF inner = {} THEN <<>>
        ELSE LET a == CHOOSE i \in inner : \A j \in inner : i <= j
                 b == CHOOSE i \in inner : \A j \in inner : j <= i
             IN  SubSeq(s, a, b)

\* str.title(): the first letter of every word upper case, the others lower
title(s) ==
    [i \in 1..Len(s) |->
        IF i = 1 \/ ~IsLetter(s[i - 1]) THEN upper(s[i]) ELSE lower(s[i])]

\* the characters of s joined into one string
RECURSIVE Text(_)
Text(s) == IF s = <<>> THEN "" ELSE s[1] \o Text(Tail(s))

\* columns.str.lower().str.strip().str.replace(' ', '_') of one column name
column_name(s) ==
    LET stripped == strip([i \in 1..Len(s) |-> lower(s[i])])
    IN  Text([i \in 1..Len(stripped) |->
                 IF stripped[i] = " " THEN "_" ELSE stripped[i]])

\* pd.to_datetime(...): the first day of the month when the text has no day
to_datetime(p) == IF Len(p) = 2 THEN <<p[1], p[2], 1>> ELSE p

\* dt.strftime('%Y-%m')
strftime(d) == <<d[1], d[2]>>

\* the unit of a count: one count is 10^6 units, so that medians and
\* interpolated percentiles of whole counts are whole numbers of units
CountUnit == 10^6

\* a missing value
NA == [nan |-> TRUE, v |-> 0]

Num(v) == [nan |-> FALSE, v |-> v]

Count(n) == Num(n * CountUnit)

RECURSIVE SortAscending(_)
SortAscending(s) ==
    IF s = <<>> THEN <<>>
    ELSE LET k == CHOOSE i \in 1..Len(s) : \A j \in 1..Len(s) : s[i] <= s[j]
         IN  <<s[k]>> \o SortAscending(RemoveAt(s, k))

\* the values of a series that are not missing, in ascending order
SortedValues(s) ==
    LET kept == SelectSeq(s, LAMBDA c : ~c.nan)
    IN  SortAscending([i \in 1..Len(kept) |-> kept[i].v])

\* Series.median(): missing values are skipped; NaN when nothing is left
median(s) ==
    LET x == SortedValues(s)
        n == Len(x)
    IN  IF n = 0 THEN NA
        ELSE IF n % 2 = 1 THEN Num(x[(n + 1) \div 2])
        ELSE Num((x[n \div 2] + x[n \div 2 + 1]) \div 2)

\* Series.quantile(0.99): linear interpolation between the two values around
\* position 0.99 * (n - 1) of the sorted non-missing values; NaN for none
quantile_99(s) ==
    LET x == SortedValues(s)
        n == Len(x)
        below == (99 * (n - 1)) \div 100
        part == (99 * (n - 1)) % 100
    IN  IF n = 0 THEN NA
        ELSE IF part = 0 THEN Num(x[below + 1])
        ELSE Num(x[below + 1] + (part * (x[below + 2] - x[below + 1])) \div 100)

\* Series.fillna(value); a NaN value fills nothing
fillna(s, value) == [i \in 1..Len(s) |-> IF s[i].nan THEN value ELSE s[i]]

HasNull(s) == \E i \in 1..Len(s) : s[i].nan

---------------------------------------------------------------------------
(* preprocessing.py: clean_common_columns and the three preprocess_* *)

\* the spelling of the column names of the files read
Chars ==
    [h \in {"State", "District ", "Period", "Age 5 17",
            "state", "district", "period", "age_5_17"} |->
        CASE h = "State" -> <<"S", "t", "a", "t", "e">>
          [] h = "District " -> <<"D", "i", "s", "t", "r", "i", "c", "t", " ">>
          [] h = "Period" -> <<"P", "e", "r", "i", "o", "d">>
          [] h = "Age 5 17" -> <<"A", "g", "e", " ", "5", " ", "1", "7">>
          [] h = "state" -> <<"s", "t", "a", "t", "e">>
          [] h = "district" -> <<"d", "i", "s", "t", "r", "i", "c", "t">>
          [] h = "period" -> <<"p", "e", "r", "i", "o", "d">>
          [] h = "age_5_17" -> <<"a", "g", "e", "_", "5", "_", "1", "7">>]

\* df.columns = df.columns.str.lower().str.strip().str.replace(' ', '_')
rename_columns(t) ==
    [i \in 1..Len(t) |->
        [k \in {column_name(Chars[h]) : h \in DOMAIN t[i]} |->
            t[i][CHOOSE h \in DOMAIN t[i] : column_name(Chars[h]) = k]]]

\* df[c] = f(df[c]) where the table has the column c
MapColumn(t, c, f(_)) ==
    IF c \in Columns(t) THEN WithColumn(t, c, [i \in 1..Len(t) |-> f(t[i][c])])
    ELSE t

\* DataFrame.drop_duplicates(): of the rows equal in every column the first stays
RECURSIVE drop_duplicates(_)
drop_duplicates(t) ==
    IF t = <<>> THEN <<>>
    ELSE LET n == Len(t)
             head == drop_duplicates(SubSeq(t, 1, n - 1))
         IN  IF \E j \in 1..(n - 1) : t[j] = t[n] THEN head ELSE Append(head, t[n])

clean_text(s) == title(strip(s))

clean_period(p) == strftime(to_datetime(p))

clean_common_columns(t) ==
    LET named == rename_columns(t)
        states == MapColumn(named, "state", clean_text)
        districts == MapColumn(states, "district", clean_text)
        periods == MapColumn(districts, "period", clean_period)
    IN  drop_duplicates(periods)

\* numeric_cols = [col for col in df.columns if col not in [state, district, period]]
numeric_cols(t) == Columns(t) \ {"state", "district", "period"}

\* the missing values of the column filled with the median of the column
group_median_fill_Global(t, col) == fillna(Column(t, col), median(Column(t, col)))

\* df.groupby(['state', 'district'])[col].transform(lambda x: x.fillna(x.median()))
group_median_fill(t, col) ==
    [i \in 1..Len(t) |->
        IF t[i][col].nan
        THEN median(Column(SelectSeq(t, LAMBDA r : /\ r.state = t[i].state
                                                   /\ r.district = t[i].district),
                           col))
        ELSE t[i][col]]

\* the imputation of one column: the median of the (state, district) group,
\* then df[col].fillna(df[col].median(), inplace=True)
impute_column(t, col) ==
    IF ~HasNull(Column(t, col)) THEN t
    ELSE LET grouped == WithColumn(t, col, group_median_fill(t, col))
         IN  WithColumn(grouped, col,
                        fillna(Column(grouped, col), median(Column(grouped, col))))

\* a loop "for col in numeric_cols" whose body step(df, col) gives column col
\* its new values from the values of that column and the key columns
ForEachColumn(t, step(_, _)) ==
    [i \in 1..Len(t) |->
        [k \in DOMAIN t[i] |->
            IF k \in numeric_cols(t) THEN step(t, k)[i][k] ELSE t[i][k]]]

\* the imputation loop; the groupby raises KeyError without its key columns
impute_missing(t) ==
    IF /\ \E col \in numeric_cols(t) : HasNull(Column(t, col))
       /\ ~({"state", "district"} \subseteq Columns(t))
    THEN [error |-> [kind |-> "KeyError", detail |-> {"state", "district"} \ Columns(t)],
          df |-> t]
    ELSE [error |-> NoError, df |-> ForEachColumn(t, impute_column)]

\* Series.clip(lower=0) without the lower bound
clip_Unbounded(s) == s

\* Series.clip(lower=0)
clip(s) == [i \in 1..Len(s) |-> IF ~s[i].nan /\ s[i].v < 0 THEN Num(0) ELSE s[i]]

\* if (df[col] < 0).any(): df[col] = df[col].clip(lower=0)
clip_negative(t, col) ==
    IF \E i \in 1..Len(t) : ~t[i][col].nan /\ t[i][col].v < 0
    THEN WithColumn(t, col, clip(Column(t, col)))
    ELSE t

\* threshold = df[col].quantile(0.99); the values above it are set to it
cap_outliers(t, col) ==
    LET threshold == quantile_99(Column(t, col))
        outliers == {i \in 1..Len(t) :
                        ~t[i][col].nan /\ ~threshold.nan /\ t[i][col].v > threshold.v}
    IN  IF outliers = {} THEN t
        ELSE WithColumn(t, col,
                 [i \in 1..Len(t) |-> IF i \in outliers THEN threshold ELSE t[i][col]])

\* preprocess_demographic, preprocess_enrolment: one loop clips and caps
clip_and_cap(t, col) == cap_outliers(clip_negative(t, col), col)

---------------------------------------------------------------------------
(* The files preprocess_* is run on *)

\* (state, district, period) as spelled in a raw file: the first two are one
\* key in two spellings, the third is another state and month
RawKeys ==
    { <<<<" ", "g", "o", "a", " ">>, <<"d", "1">>, <<2024, 1, 15>>>>,
      <<<<"G", "O", "A">>, <<"d", "1">>, <<2024, 1, 20>>>>,
      <<<<"b", "i", "h", "a", "r">>, <<"d", "1">>, <<2024, 2, 3>>>> }

\* the cells of the count column of a raw file
RawCounts == {NA, Count(-1), Count(3)}

RawRow(key, count) ==
    "State" :> key[1] @@ "District " :> key[2] @@ "Period" :> key[3]
        @@ "Age 5 17" :> count

RawRows == {RawRow(key, count) : key \in RawKeys, count \in RawCounts}

RawTables == UNION {[1..n -> RawRows] : n \in 1..MaxRawRows}

\* raw files of one or two rows that lack one of the key columns
RawTablesWithout ==
    {Restrict(t, Columns(t) \ {h}) :
        t \in {t \in RawTables : Len(t) <= 2}, h \in {"State", "District ", "Period"}}

preprocess_functions ==
    {"preprocess_biometric", "preprocess_demographic", "preprocess_enrolment"}

InPreprocess == entry \in preprocess_functions

InitPreprocess ==
    /\ entry \in preprocess_functions
    /\ pc = "start"
    /\ error = NoError
    /\ csv \in RawTables \cup RawTablesWithout
    /\ df = <<>>
    /\ cleaned = <<>>
    /\ run = 1
    /\ signals_df = <<>> /\ weights = WEIGHTS /\ written = {}
    /\ component_analysis = NoAnalysis
    /\ NoSignals

\* df = load_csv(filepath); check_missing_values(df) only reports
LoadCsv ==
    /\ InPreprocess /\ pc = "start"
    /\ \/ df' = csv /\ pc' = "loaded" /\ error' = error
       \/ /\ pc' = "error"
          /\ error' = [kind |-> "FileNotFoundError", detail |-> {entry}]
          /\ df' = df
    /\ UNCHANGED <<entry, csv, cleaned, run, indexVars, sigVars>>

\* df = clean_common_columns(df)
CleanCommonColumns ==
    /\ InPreprocess /\ pc = "loaded"
    /\ \E t \in {clean_common_columns(df)} : df' = t
    /\ pc' = "cleaned"
    /\ UNCHANGED <<entry, error, csv, cleaned, run, indexVars, sigVars>>

\* the loop "Handle missing values"
ImputeMissing ==
    /\ InPreprocess /\ pc = "cleaned"
    /\ \E r \in {impute_missing(df)} :
           /\ error' = r.error
           /\ df' = r.df
           /\ pc' = IF r.error = NoError THEN "imputed" ELSE "error"
    /\ UNCHANGED <<entry, csv, cleaned, run, indexVars, sigVars>>

\* preprocess_biometric: the loop "Handle negative values"
ClipNegative ==
    /\ entry = "preprocess_biometric" /\ pc = "imputed"
    /\ \E t \in {ForEachColumn(df, clip_negative)} : df' = t
    /\ pc' = "clipped"
    /\ UNCHANGED <<entry, error, csv, cleaned, run, indexVars, sigVars>>

\* preprocess_biometric: the loop "Cap outliers at 99th percentile"
CapOutliers ==
    /\ entry = "preprocess_biometric" /\ pc = "clipped"
    /\ \E t \in {ForEachColumn(df, cap_outliers)} : df' = t
    /\ pc' = "capped"
    /\ UNCHANGED <<entry, error, csv, cleaned, run, indexVars, sigVars>>

\* preprocess_demographic, preprocess_enrolment: the loop "Handle negative
\* values and outliers"
ClipAndCap ==
    /\ entry \in {"preprocess_demographic", "preprocess_enrolment"}
    /\ pc = "imputed"
    /\ \E t \in {ForEachColumn(df, clip_and_cap)} : df' = t
    /\ pc' = "capped"
    /\ UNCHANGED <<entry, error, csv, cleaned, run, indexVars, sigVars>>

\* if output_path: save_csv(df, output_path); return df
ReturnCleaned ==
    /\ InPreprocess /\ pc = "capped"
    /\ \/ /\ pc' = "done"
          /\ written' \in {written,
                           written \cup {OutputFile(entry, Columns(df), TRUE)}}
          /\ error' = error
       \/ /\ written' \in {written,
                           written \cup {OutputFile(entry, Columns(df), FALSE)}}
          /\ pc' = "error"
          /\ error' = [kind |-> "OSError", detail |-> {entry}]
    /\ UNCHANGED <<entry, df, csv, cleaned, run, signals_df, weights, component_analysis, sigVars>>

\* the caller runs the same preprocess_* again on the dataset it returned
PreprocessAgain ==
    /\ InPreprocess /\ pc = "done" /\ run = 1
    /\ csv' = df
    /\ cleaned' = df
    /\ df' = <<>>
    /\ run' = 2
    /\ pc' = "start"
    /\ UNCHANGED <<entry, error, indexVars, sigVars>>

NextPreprocess ==
    \/ LoadCsv
    \/ CleanCommonColumns
    \/ ImputeMissing
    \/ ClipNegative
    \/ CapOutliers
    \/ ClipAndCap
    \/ ReturnCleaned
    \/ PreprocessAgain

SpecPreprocess == InitPreprocess /\ [][NextPreprocess]_vars

---------------------------------------------------------------------------
(* signal.py: tables, merges and row-wise statistics *)

\* In the tables handed to signal.py one count is SignalUnit units.  The
\* arithmetic on them is fixed point: a division or a square root is rounded
\* down to a whole number of units.  A value of a signal column is the
\* quotient num / den of normalize_column, or NaN.
SignalUnit == 10^3

merge_keys == {"state", "district", "period"}

\* the characters in the order of their code points
Collation ==
    <<" ", "0", "1", "2", "3", "4", "5", "6", "7", "8", "9">> \o UpperCase
        \o <<"_">> \o LowerCase

\* a < b for two texts, as Python compares strings
RECURSIVE TextLess(_, _)
TextLess(a, b) ==
    IF b = <<>> THEN FALSE
    ELSE IF a = <<>> THEN TRUE
    ELSE IF a[1] = b[1] THEN TextLess(Tail(a), Tail(b))
    ELSE LET code(c) == CHOOSE i \in 1..Len(Collation) : Collation[i] = c
         IN  code(a[1]) < code(b[1])

\* a < b for the keys of two rows; a period <<year, month>> stands for the
\* text YYYY-MM, whose order is the order of the dates
KeyLess(a, b) ==
    IF a.state # b.state THEN TextLess(a.state, b.state)
    ELSE IF a.district # b.district THEN TextLess(a.district, b.district)
    ELSE \/ a.period[1] < b.period[1]
         \/ a.period[1] = b.period[1] /\ a.period[2] < b.period[2]

SameKey(a, b) == \A k \in merge_keys : a[k] = b[k]

\* the rows of t in the order of their keys, rows of one key in the order of t
RECURSIVE sort_by_keys(_)
sort_by_keys(t) ==
    IF t = <<>> THEN <<>>
    ELSE LET n == Len(t)
             head == sort_by_keys(SubSeq(t, 1, n - 1))
             k == Cardinality({j \in 1..(n - 1) : ~KeyLess(t[n], head[j])})
         IN  SubSeq(head, 1, k) \o <<t[n]>> \o SubSeq(head, k + 1, n - 1)

RECURSIVE Flatten(_)
Flatten(ss) == IF ss = <<>> THEN <<>> ELSE ss[1] \o Flatten(Tail(ss))

\* pd.merge(l, r, on=merge_keys, how='outer', suffixes=(ls, rs)): every pair
\* of rows of one key, the rows of l or r without partner filled with NaN;
\* a column name found on both sides takes the suffix of its side
merge(l, r, ls, rs) ==
    LET lc == Columns(l) \ merge_keys
        rc == Columns(r) \ merge_keys
        ln(c) == IF c \in rc THEN c \o ls ELSE c
        rn(c) == IF c \in lc THEN c \o rs ELSE c
        cols == merge_keys \cup {ln(c) : c \in lc} \cup {rn(c) : c \in rc}
        row(a, b, inl, inr) ==
            [k \in cols |->
                IF k \in merge_keys THEN (IF inl THEN a[k] ELSE b[k])
                ELSE IF \E c \in lc : ln(c) = k
                THEN (IF inl THEN a[CHOOSE c \in lc : ln(c) = k] ELSE NA)
                ELSE (IF inr THEN b[CHOOSE c \in rc : rn(c) = k] ELSE NA)]
        partners(i) == SelectSeq(r, LAMBDA b : SameKey(l[i], b))
        left == [i \in 1..Len(l) |->
                    IF partners(i) = <<>> THEN <<row(l[i], l[i], TRUE, FALSE)>>
                    ELSE [j \in 1..Len(partners(i)) |->
                             row(l[i], partners(i)[j], TRUE, TRUE)]]
        alone == SelectSeq(r, LAMBDA b : \A i \in 1..Len(l) : ~SameKey(l[i], b))
        right == [j \in 1..Len(alone) |-> row(alone[j], alone[j], FALSE, TRUE)]
    IN  sort_by_keys(Flatten(left) \o right)

\* the largest whole number whose square is at most n
RECURSIVE SqrtBetween(_, _, _)
SqrtBetween(n, lo, hi) ==
    IF lo = hi THEN lo
    ELSE LET mid == (lo + hi + 1) \div 2
         IN  IF mid * mid <= n THEN SqrtBetween(n, mid, hi)
             ELSE SqrtBetween(n, lo, mid - 1)

RECURSIVE SumSeq(_)
SumSeq(s) == IF s = <<>> THEN 0 ELSE s[1] + SumSeq(Tail(s))

\* the values of s that are not NaN, in the order of s
Present(s) ==
    LET kept == SelectSeq(s, LAMBDA c : ~c.nan)
    IN  [i \in 1..Len(kept) |-> kept[i].v]

\* sum(): NaN is skipped, the sum of nothing is 0
sum(s) == Num(SumSeq(Present(s)))

\* mean(): NaN is skipped, the mean of nothing is NaN
mean(s) ==
    LET x == Present(s)
    IN  IF x = <<>> THEN NA ELSE Num(SumSeq(x) \div Len(x))

\* the square of std(): var() with ddof=1 in squared units, NaN for fewer
\* than two values
SquaredStd(s) ==
    LET x == Present(s)
        n == Len(x)
    IN  IF n < 2 THEN NA
        ELSE Num((n * SumSeq([i \in 1..n |-> x[i] * x[i]]) - SumSeq(x) * SumSeq(x))
                     \div (n * (n - 1)))

\* var() with ddof=1
var(s) == IF SquaredStd(s).nan THEN NA ELSE Num(SquaredStd(s).v \div SignalUnit)

\* std() with ddof=1
std(s) ==
    IF SquaredStd(s).nan THEN NA ELSE Num(SqrtBetween(SquaredStd(s).v, 0, 46340))

\* max(): NaN is skipped, the maximum of nothing is NaN
max(s) ==
    LET x == Present(s)
    IN  IF x = <<>> THEN NA
        ELSE Num(CHOOSE v \in {x[i] : i \in 1..Len(x)} : \A i \in 1..Len(x) : x[i] <= v)

\* min(): NaN is skipped, the minimum of nothing is NaN
min(s) ==
    LET x == Present(s)
    IN  IF x = <<>> THEN NA
        ELSE Num(CHOOSE v \in {x[i] : i \in 1..Len(x)} : \A i \in 1..Len(x) : v <= x[i])

\* the cells of row r in the columns cols, as a series (axis=1)
Across(r, cols) ==
    LET RECURSIVE cells(_)
        cells(S) == IF S = {} THEN <<>>
                    ELSE LET c == CHOOSE x \in S : TRUE
                         IN  <<r[c]>> \o cells(S \ {c})
    IN  cells(cols)

---------------------------------------------------------------------------
(* utils.py: normalize_column *)

\* a value of a normalized column
SignalNaN == [nan |-> TRUE, num |-> 0, den |-> 1]

SignalValue(num, den) == [nan |-> FALSE, num |-> num, den |-> den]

\* normalize_column without the special case of a constant column
normalize_column_Unguarded(s) ==
    [i \in 1..Len(s) |->
        IF s[i].nan \/ min(s).nan \/ max(s).v = min(s).v THEN SignalNaN
        ELSE SignalValue(100 * (s[i].v - min(s).v), max(s).v - min(s).v)]

\* normalize_column(series, min_val=0, max_val=100)
normalize_column(s) ==
    IF ~min(s).nan /\ max(s).v = min(s).v
    THEN [i \in 1..Len(s) |-> SignalValue(0, 1)]
    ELSE [i \in 1..Len(s) |->
             IF s[i].nan \/ min(s).nan THEN SignalNaN
             ELSE SignalValue(100 * (s[i].v - min(s).v), max(s).v - min(s).v)]

---------------------------------------------------------------------------
(* signal.py: the four signals *)

\* col.endswith(suffix)
endswith(col, suffix) ==
    /\ Len(col) >= Len(suffix)
    /\ SubSeq(col, Len(col) - Len(suffix) + 1, Len(col)) = suffix

\* keyword in text
contains(text, keyword) ==
    \E i \in 1..(Len(text) - Len(keyword) + 1) :
        SubSeq(text, i, i + Len(keyword) - 1) = keyword

\* col.lower()
column_lower(col) == Text([i \in 1..Len(col) |-> lower(SubSeq(col, i, i))])

failure_keywords == {"fail", "retry", "reject", "error", "repeat"}

\* any(keyword in col ...) without lower()
IsFailureColumn_CaseSensitive(col) ==
    \E keyword \in failure_keywords : contains(col, keyword)

\* any(keyword in col.lower() for keyword in ['fail', 'retry', 'reject',
\* 'error', 'repeat'])
IsFailureColumn(col) ==
    \E keyword \in failure_keywords : contains(column_lower(col), keyword)

\* df[merge_keys + [signal]] with the values of the signal
SignalTable(t, signal, values) == Restrict(WithColumn(t, signal, values), merge_keys \cup {signal})

\* total_updates summing only the columns that kept the name they have in
\* their source
total_updates_OwnNames(biometric, demographic) ==
    LET t == merge(biometric, demographic, "_bio", "_demo")
        bio_cols == Columns(t) \cap (Columns(biometric) \ merge_keys)
        demo_cols == Columns(t) \cap (Columns(demographic) \ merge_keys)
    IN  [i \in 1..Len(t) |->
            Num((3 * sum(Across(t[i], bio_cols)).v) \div 2
                    + sum(Across(t[i], demo_cols)).v)]

\* the value bio_updates * 1.5 + demo_updates of every row of the merged table
total_updates(biometric, demographic) ==
    LET t == merge(biometric, demographic, "_bio", "_demo")
        bio_update_cols == Columns(biometric) \ merge_keys
        demo_update_cols == Columns(demographic) \ merge_keys
        bio_cols == {c \in Columns(t) : endswith(c, "_bio") \/ c \in bio_update_cols}
        demo_cols == {c \in Columns(t) : endswith(c, "_demo") \/ c \in demo_update_cols}
    IN  [i \in 1..Len(t) |->
            Num((3 * sum(Across(t[i], bio_cols)).v) \div 2
                    + sum(Across(t[i], demo_cols)).v)]

calculate_uis(biometric, demographic) ==
    SignalTable(merge(biometric, demographic, "_bio", "_demo"), "UIS",
                normalize_column(total_updates(biometric, demographic)))

\* the value repeat_interactions of every row of the merged table
repeat_interactions(biometric, demographic) ==
    LET t == merge(biometric, demographic, "_x", "_y")
        failure_cols == {c \in Columns(t) : IsFailureColumn(c)}
        update_cols == Columns(t) \ merge_keys
    IN  [i \in 1..Len(t) |->
            IF failure_cols # {} THEN sum(Across(t[i], failure_cols))
            ELSE std(Across(t[i], update_cols))]

calculate_ris(biometric, demographic) ==
    SignalTable(merge(biometric, demographic, "_x", "_y"), "RIS",
                normalize_column(repeat_interactions(biometric, demographic)))

\* the value BSS_raw of every row of the biometric dataset
BSS_raw(biometric) ==
    LET bio_cols == Columns(biometric) \ merge_keys
        cells(i) == Across(biometric[i], bio_cols)
    IN  [i \in 1..Len(biometric) |->
            IF var(cells(i)).nan \/ max(cells(i)).nan THEN NA
            ELSE Num((4 * sum(cells(i)).v + 3 * var(cells(i)).v + 3 * max(cells(i)).v)
                         \div 10)]

calculate_bss(biometric) ==
    SignalTable(biometric, "BSS", normalize_column(BSS_raw(biometric)))

\* the three datasets merged, with total_activity, sorted by the keys
activity_table(biometric, demographic, enrolment) ==
    LET t == merge(merge(biometric, demographic, "_bio", "_demo"), enrolment, "_x", "_y")
        all_value_cols == Columns(t) \ merge_keys
    IN  sort_by_keys(WithColumn(t, "total_activity",
            [i \in 1..Len(t) |-> sum(Across(t[i], all_value_cols))]))

\* the positions of the rows of the (state, district) group of row i, in order
GroupOf(t, i) ==
    {j \in 1..Len(t) : t[j].state = t[i].state /\ t[j].district = t[i].district}

\* total_activity of the rows of the group of row i
GroupActivity(t, i) ==
    LET rows == SelectSeq(t, LAMBDA r : r.state = t[i].state /\ r.district = t[i].district)
    IN  Column(rows, "total_activity")

\* total_activity.diff().abs() at row i, without the groups
mom_change_Ungrouped(t, i) ==
    IF i = 1 THEN NA
    ELSE LET d == t[i].total_activity.v - t[i - 1].total_activity.v
         IN  Num(IF d < 0 THEN -d ELSE d)

\* groupby(['state', 'district'])['total_activity'].diff().abs() at row i
mom_change(t, i) ==
    LET before == {j \in GroupOf(t, i) : j < i}
    IN  IF before = {} THEN NA
        ELSE LET prev == CHOOSE j \in before : \A k \in before : k <= j
                 d == t[i].total_activity.v - t[prev].total_activity.v
             IN  Num(IF d < 0 THEN -d ELSE d)

\* the value TSD_raw of every row of the activity table
TSD_raw(t) ==
    [i \in 1..Len(t) |->
        LET group_mean == mean(GroupActivity(t, i))
            d == t[i].total_activity.v - group_mean.v
            deviation_from_mean == IF d < 0 THEN -d ELSE d
            group_std == std(GroupActivity(t, i))
            coefficient_of_variation ==
                (group_std.v * SignalUnit) \div (group_mean.v + SignalUnit)
        IN  IF group_std.nan THEN NA
            ELSE Num((4 * deviation_from_mean
                        + 3 * fillna(<<mom_change(t, i)>>, Num(0))[1].v
                        + 3 * coefficient_of_variation) \div 10)]

calculate_tsd(biometric, demographic, enrolment) ==
    LET t == activity_table(biometric, demographic, enrolment)
    IN  SignalTable(t, "TSD", normalize_column(TSD_raw(t)))

\* the merged signal table with its missing values left in place
fill_signals_None(t) == t

\* signals[['UIS', 'RIS', 'BSS', 'TSD']].fillna(0)
fill_signals(t) ==
    [i \in 1..Len(t) |->
        [k \in DOMAIN t[i] |->
            IF k \in {"UIS", "RIS", "BSS", "TSD"} /\ t[i][k].nan
            THEN SignalValue(0, 1) ELSE t[i][k]]]

\* merging the four signal tables by inner joins
merge_signals_Inner(uis, ris, bss, tsd) ==
    LET all == merge(merge(merge(uis, ris, "_x", "_y"), bss, "_x", "_y"), tsd, "_x", "_y")
    IN  SelectSeq(all, LAMBDA r : \A k \in {"UIS", "RIS", "BSS", "TSD"} : ~r[k].nan)

\* calculate_all_signals: the four signal tables merged
merge_signals(uis, ris, bss, tsd) ==
    merge(merge(merge(uis, ris, "_x", "_y"), bss, "_x", "_y"), tsd, "_x", "_y")

---------------------------------------------------------------------------
(* The datasets calculate_all_signals is run on *)

\* the keys of the cleaned datasets: two periods of one (state, district)
\* group and a group with a single period
SignalKeys ==
    { [state |-> <<"G", "o", "a">>, district |-> <<"D", "1">>, period |-> <<2024, 1>>],
      [state |-> <<"G", "o", "a">>, district |-> <<"D", "1">>, period |-> <<2024, 2>>],
      [state |-> <<"B", "i", "h", "a", "r">>, district |-> <<"D", "1">>, period |-> <<2024, 1>>] }

\* a row of a cleaned dataset: a key and the counts of its count columns
DataRow(key, counts) ==
    [k \in merge_keys \cup DOMAIN counts |->
        IF k \in merge_keys THEN key[k] ELSE Num(counts[k] * SignalUnit)]

\* the tables of one to three different rows, in the order of their keys and
\* of their counts in column col
DataTables(rows, col) ==
    {t \in UNION {[1..n -> rows] : n \in 1..Cardinality(SignalKeys)} :
        \A i \in 1..(Len(t) - 1) :
            \/ KeyLess(t[i], t[i + 1])
            \/ SameKey(t[i], t[i + 1]) /\ t[i][col].v < t[i + 1][col].v}

\* cleaned biometric datasets: one count column or two, a key on one row or
\* on several rows with different counts
BiometricTables ==
    DataTables({DataRow(key, [bio_age_5_17 |-> n]) :
                   key \in SignalKeys, n \in 1..MaxCount}, "bio_age_5_17")
    \cup
    DataTables({DataRow(key, [bio_age_5_17 |-> n, bio_age_17_ |-> 1]) :
                   key \in SignalKeys, n \in 1..MaxCount}, "bio_age_5_17")

DemographicTables ==
    DataTables({DataRow(key, [demo_age_5_17 |-> 1]) : key \in SignalKeys},
               "demo_age_5_17")

EnrolmentTables ==
    DataTables({DataRow(key, [age_0_5 |-> 1]) : key \in SignalKeys}, "age_0_5")

InSignals == entry = "calculate_all_signals"

InitSignals ==
    /\ entry = "calculate_all_signals"
    /\ pc = "start"
    /\ error = NoError
    /\ biometric_df \in BiometricTables
    /\ demographic_df \in DemographicTables
    /\ enrolment_df \in EnrolmentTables
    /\ uis_df = <<>> /\ ris_df = <<>> /\ bss_df = <<>> /\ tsd_df = <<>>
    /\ df = <<>>
    /\ signals_df = <<>> /\ weights = WEIGHTS /\ written = {}
    /\ component_analysis = NoAnalysis
    /\ NoPreprocessing

\* uis_df = calculate_uis(biometric_df, demographic_df), inside
\* calculate_all_signals or called on its own
CalculateUis ==
    /\ \/ InSignals /\ pc = "start" /\ pc' = "uis"
       \/ entry = "calculate_uis" /\ pc = "start" /\ pc' = "done"
    /\ \E t \in {calculate_uis(biometric_df, demographic_df)} : uis_df' = t
    /\ UNCHANGED <<entry, df, error, indexVars, preVars, biometric_df,
                   demographic_df, enrolment_df, ris_df, bss_df, tsd_df>>

\* ris_df = calculate_ris(biometric_df, demographic_df), inside
\* calculate_all_signals or called on its own
CalculateRis ==
    /\ \/ InSignals /\ pc = "uis" /\ pc' = "ris"
       \/ entry = "calculate_ris" /\ pc = "start" /\ pc' = "done"
    /\ \E t \in {calculate_ris(biometric_df, demographic_df)} : ris_df' = t
    /\ UNCHANGED <<entry, df, error, indexVars, preVars, biometric_df,
                   demographic_df, enrolment_df, uis_df, bss_df, tsd_df>>

\* bss_df = calculate_bss(biometric_df)
CalculateBss ==
    /\ InSignals /\ pc = "ris"
    /\ \E t \in {calculate_bss(biometric_df)} : bss_df' = t
    /\ pc' = "bss"
    /\ UNCHANGED <<entry, df, error, indexVars, preVars, biometric_df,
                   demographic_df, enrolment_df, uis_df, ris_df, tsd_df>>

\* tsd_df = calculate_tsd(biometric_df, demographic_df, enrolment_df), inside
\* calculate_all_signals or called on its own
CalculateTsd ==
    /\ \/ InSignals /\ pc = "bss" /\ pc' = "tsd"
       \/ entry = "calculate_tsd" /\ pc = "start" /\ pc' = "done"
    /\ \E t \in {calculate_tsd(biometric_df, demographic_df, enrolment_df)} :
          tsd_df' = t
    /\ UNCHANGED <<entry, df, error, indexVars, preVars, biometric_df,
                   demographic_df, enrolment_df, uis_df, ris_df, bss_df>>

\* the three merges of the signal tables, fillna(0), save_csv if output_path
\* is given, and return signals
MergeSignals ==
    /\ InSignals /\ pc = "tsd"
    /\ \E t \in {fill_signals(merge_signals(uis_df, ris_df, bss_df, tsd_df))} :
          df' = t
    /\ \/ /\ pc' = "done"
          /\ written' \in {written,
                           written \cup {OutputFile(entry, Columns(df'), TRUE)}}
          /\ error' = error
       \/ /\ written' \in {written,
                           written \cup {OutputFile(entry, Columns(df'), FALSE)}}
          /\ pc' = "error"
          /\ error' = [kind |-> "OSError", detail |-> {entry}]
    /\ UNCHANGED <<entry, signals_df, weights, component_analysis, preVars, sigVars>>

NextSignals ==
    \/ CalculateUis
    \/ CalculateRis
    \/ CalculateBss
    \/ CalculateTsd
    \/ MergeSignals

SpecSignals == InitSignals /\ [][NextSignals]_vars

---------------------------------------------------------------------------
(* calculate_uis, calculate_ris, calculate_tsd called on their own *)

\* the tables of one to three rows of different keys, in any order
AnyOrderTables(rows) ==
    {t \in UNION {[1..n -> rows] : n \in 1..Cardinality(SignalKeys)} :
        \A i, j \in 1..Len(t) : i # j => ~SameKey(t[i], t[j])}

\* biometric datasets: a count column of their own, a count column named as
\* one of the demographic dataset, or a count column and a failure column
UnorderedBiometricTables ==
    AnyOrderTables({DataRow(key, [bio_age_5_17 |-> n]) :
                       key \in SignalKeys, n \in 1..MaxCount})
    \cup
    AnyOrderTables({DataRow(key, [age_5_17 |-> n]) :
                       key \in SignalKeys, n \in 1..MaxCount})
    \cup
    AnyOrderTables({DataRow(key, [bio_age_5_17 |-> 1, Auth_Failures |-> n]) :
                       key \in SignalKeys, n \in 1..MaxCount})

\* demographic datasets of one row: a count column of their own, one named
\* as in the biometric dataset, or a count column and a failure column
SingleRowDemographicTables ==
    {<<DataRow(key, counts)>> :
        key \in SignalKeys,
        counts \in {[demo_age_5_17 |-> 1], [age_5_17 |-> 1],
                    [demo_age_5_17 |-> 1, retry_count |-> 2]}}

InitSignalCall ==
    /\ entry \in {"calculate_uis", "calculate_ris", "calculate_tsd"}
    /\ pc = "start"
    /\ error = NoError
    /\ biometric_df \in UnorderedBiometricTables
    /\ demographic_df \in SingleRowDemographicTables
    /\ enrolment_df \in IF entry = "calculate_tsd"
                         THEN {t \in EnrolmentTables : Len(t) = 1}
                         ELSE {<<>>}
    /\ uis_df = <<>> /\ ris_df = <<>> /\ bss_df = <<>> /\ tsd_df = <<>>
    /\ df = <<>>
    /\ signals_df = <<>> /\ weights = WEIGHTS /\ written = {}
    /\ component_analysis = NoAnalysis
    /\ NoPreprocessing

NextSignalCall ==
    \/ CalculateUis
    \/ CalculateRis
    \/ CalculateTsd

SpecSignalCall == InitSignalCall /\ [][NextSignalCall]_vars

---------------------------------------------------------------------------
(* index.py, __main__: preprocess_all, calculate_all_signals, calculate_afi *)

\* the dataset a preprocess_* function returns for the raw file, or the
\* exception its imputation loop raises
preprocess(function, raw) ==
    LET r == impute_missing(clean_common_columns(raw))
    IN  IF r.error # NoError THEN r
        ELSE [error |-> NoError,
              df |-> IF function = "preprocess_biometric"
                     THEN ForEachColumn(ForEachColumn(r.df, clip_negative), cap_outliers)
                     ELSE ForEachColumn(r.df, clip_and_cap)]

\* a cleaned dataset as signal.py reads it: the same counts, one count being
\* SignalUnit units there and CountUnit units in preprocessing.py
cleaned_dataset(t) ==
    [i \in 1..Len(t) |->
        [k \in DOMAIN t[i] |->
            IF k \in merge_keys \/ t[i][k].nan THEN t[i][k]
            ELSE Num(t[i][k].v \div (CountUnit \div SignalUnit))]]

\* the signal table as index.py reads it: its signal values are whole numbers
signal_table(t) ==
    [i \in 1..Len(t) |->
        [k \in DOMAIN t[i] |->
            IF k \in merge_keys THEN t[i][k] ELSE t[i][k].num \div t[i][k].den]]

\* every signal value of t is a whole number
WholeSignals(t) ==
    \A i \in 1..Len(t) : \A k \in DOMAIN t[i] \ merge_keys :
        ~t[i][k].nan /\ t[i][k].num % t[i][k].den = 0

\* raw biometric and demographic files of one row
BiometricFiles == {<<RawRow(key, count)>> : key \in RawKeys, count \in {NA, Count(3)}}

DemographicFiles == {<<RawRow(key, Count(3))>> : key \in RawKeys}

\* raw enrolment files of one or two rows, where the two rows may be the
\* same row twice or different rows of one key
EnrolmentFiles ==
    LET rows == {RawRow(key, count) : key \in RawKeys, count \in {Count(-1), Count(3)}}
    IN  {<<r>> : r \in rows}
            \cup {<<r, s>> \in rows \X rows : r["Age 5 17"] = Count(3)}

InMain == csv # <<>> /\ run = 0

InitMain ==
    /\ entry = "main"
    /\ pc = "start"
    /\ error = NoError
    /\ csv \in {<<b, d, e>> : b \in BiometricFiles, d \in DemographicFiles,
                              e \in EnrolmentFiles}
    /\ cleaned = <<>> /\ run = 0
    /\ df = <<>>
    /\ signals_df = <<>> /\ weights = WEIGHTS /\ written = {}
    /\ component_analysis = NoAnalysis
    /\ NoSignals

\* preprocess_all: the three preprocess_* calls, each loading its raw file
\* and saving its cleaned copy, after which main calls calculate_all_signals
PreprocessAll ==
    /\ entry = "main" /\ pc = "start"
    /\ \E b \in {preprocess("preprocess_biometric", csv[1])},
          d \in {preprocess("preprocess_demographic", csv[2])},
          e \in {preprocess("preprocess_enrolment", csv[3])} :
       LET files == <<OutputFile("preprocess_biometric", Columns(b.df), TRUE),
                      OutputFile("preprocess_demographic", Columns(d.df), TRUE),
                      OutputFile("preprocess_enrolment", Columns(e.df), TRUE)>>
       IN  \/ /\ b.error = NoError /\ d.error = NoError /\ e.error = NoError
              /\ biometric_df' = cleaned_dataset(b.df)
              /\ demographic_df' = cleaned_dataset(d.df)
              /\ enrolment_df' = cleaned_dataset(e.df)
              /\ written' = written \cup {files[1], files[2], files[3]}
              /\ entry' = "calculate_all_signals"
              /\ pc' = "start"
              /\ error' = error
           \/ /\ \E n \in 0..2, kind \in {"FileNotFoundError", "OSError"} :
                    /\ written' = written \cup {files[i] : i \in 1..n}
                    /\ error' = [kind |-> kind, detail |-> {files[n + 1].file}]
              /\ pc' = "error"
              /\ UNCHANGED <<entry, biometric_df, demographic_df, enrolment_df>>
    /\ UNCHANGED <<df, signals_df, weights, component_analysis, preVars, uis_df, ris_df, bss_df, tsd_df>>

\* afi = calculate_afi(signals), on the table calculate_all_signals returned
CallCalculateAfi ==
    /\ InMain /\ entry = "calculate_all_signals" /\ pc = "done"
    /\ WholeSignals(df)
    /\ signals_df' = signal_table(df)
    /\ entry' = "calculate_afi"
    /\ pc' = "start"
    /\ df' = <<>>
    /\ UNCHANGED <<error, weights, component_analysis, written, preVars, sigVars>>

NextMain ==
    \/ PreprocessAll
    \/ NextSignals
    \/ CallCalculateAfi
    \/ Next

SpecMain == InitMain /\ [][NextMain]_vars


---------------------------------------------------------------------------
(* Properties *)

HasColumn(c) == c \in Columns(df)

InCalculateAfi == entry = "calculate_afi"

\* w_UIS*UIS + w_RIS*RIS + w_BSS*BSS + w_TSD*TSD of row r, summed by parts:
\* the whole cents and the nano parts separately
ExactWeightedSum(r, w) ==
    LET sig == <<r.UIS, r.RIS, r.BSS, r.TSD>>
        wts == <<w.UIS, w.RIS, w.BSS, w.TSD>>
    IN  Carry(Fx(
            wts[1].cent * sig[1] + wts[2].cent * sig[2] + wts[3].cent * sig[3]
              + wts[4].cent * sig[4]
              + ((wts[1].nano * sig[1]) \div NanoPerCent) + ((wts[2].nano * sig[2]) \div NanoPerCent)
              + ((wts[3].nano * sig[3]) \div NanoPerCent) + ((wts[4].nano * sig[4]) \div NanoPerCent),
            ((wts[1].nano * sig[1]) % NanoPerCent) + ((wts[2].nano * sig[2]) % NanoPerCent)
              + ((wts[3].nano * sig[3]) % NanoPerCent) + ((wts[4].nano * sig[4]) % NanoPerCent)))

\* calculate_afi has put the rows of df in the order of their AFI
RowsSorted ==
    \/ pc \in {"sorted", "saved_full", "saved_ranked", "done"}
    \/ pc = "error" /\ error.kind = "OSError"

\* C1: once calculate_afi_raw has returned, AFI_raw of every row is the weighted
\* sum of the four signals of that row under the supplied weights (23.5 for
\* UIS=10, RIS=20, BSS=30, TSD=40 under the default weights), the input columns
\* keep their values and the table keeps its rows, in their order until
\* calculate_afi sorts them; right after the call AFI_raw is the only new column.
C1_WeightedSum ==
    (InCalculateAfi /\ HasColumn("AFI_raw")) =>
        /\ Len(df) = Len(signals_df)
        /\ ~RowsSorted => Restrict(df, Columns(signals_df)) = signals_df
        /\ pc = "raw" => Columns(df) = Columns(signals_df) \cup {"AFI_raw"}
        /\ \A i \in 1..Len(df) :
              /\ df[i].AFI_raw = ExactWeightedSum(df[i], weights)
              /\ (weights = WEIGHTS /\ <<df[i].UIS, df[i].RIS, df[i].BSS, df[i].TSD>> = <<10, 20, 30, 40>>)
                    => df[i].AFI_raw = Fx(2350, 0)

C1_Witness ==
    /\ InCalculateAfi /\ pc = "raw" /\ weights = WEIGHTS /\ Len(df) = 3
    /\ \E i \in 1..Len(df) :
          /\ <<df[i].UIS, df[i].RIS, df[i].BSS, df[i].TSD>> = <<10, 20, 30, 40>>
          /\ df[i].AFI_raw = Fx(2350, 0)

\* |sum(weights) - 1.0|
WeightDeviation == FxAbs(FxSub(weight_sum(weights), FxOne))

\* validate_signals has accepted signals_df and calculate_afi_raw has been called
AfterCalculateAfiRaw ==
    /\ InCalculateAfi
    /\ pc \notin {"start", "validated"}
    /\ error.kind \notin {"ValueError: Missing required columns", "ValueError: Negative values found"}

\* C2: a call of calculate_afi_raw with weights summing to 0.99 or 1.01 ends in
\* the ValueError of the weight check and leaves no AFI_raw column; with weights
\* whose sum is 1.0 or differs from it by at most 1e-9, the weight check raises
\* nothing and AFI_raw is added.
C2_WeightValidation ==
    AfterCalculateAfiRaw =>
        /\ WeightDeviation = Fx(1, 0) =>
              /\ pc = "error"
              /\ error.kind = "ValueError: Weights must sum to 1.0"
              /\ ~HasColumn("AFI_raw")
        /\ FxLeq(WeightDeviation, Fx(0, 1)) =>
              /\ error.kind # "ValueError: Weights must sum to 1.0"
              /\ HasColumn("AFI_raw")

C2_Witness ==
    /\ InCalculateAfi /\ pc = "error"
    /\ weight_sum(weights) = Fx(99, 0)
    /\ error.kind = "ValueError: Weights must sum to 1.0"
    /\ ~HasColumn("AFI_raw")

\* the least and the greatest AFI_raw of the whole table
IsGlobalMin(x) ==
    (\E i \in 1..Len(df) : df[i].AFI_raw = x) /\ (\A i \in 1..Len(df) : FxLeq(x, df[i].AFI_raw))

IsGlobalMax(x) ==
    (\E i \in 1..Len(df) : df[i].AFI_raw = x) /\ (\A i \in 1..Len(df) : FxLeq(df[i].AFI_raw, x))

DistinctRaw == \E i, j \in 1..Len(df) : df[i].AFI_raw # df[j].AFI_raw

\* C3: when the table holds at least two distinct AFI_raw values, normalize_afi
\* sets AFI = 100 * (AFI_raw - min) / (max - min) with min and max those of the
\* whole table; every AFI lies in [0, 100], the rows of the global minimum get
\* AFI = 0 and the rows of the global maximum get AFI = 100.
C3_GlobalMinMax ==
    (InCalculateAfi /\ HasColumn("AFI") /\ DistinctRaw) =>
        \A i \in 1..Len(df) : \A lo, hi \in {df[j].AFI_raw : j \in 1..Len(df)} :
            (IsGlobalMin(lo) /\ IsGlobalMax(hi)) =>
                /\ ~df[i].AFI.nan
                /\ df[i].AFI.den = FxSub(hi, lo)
                /\ df[i].AFI.num = FxScale(100, FxSub(df[i].AFI_raw, lo))
                /\ FxLeq(FxZero, df[i].AFI.num)
                /\ FxLeq(df[i].AFI.num, FxScale(100, df[i].AFI.den))
                /\ df[i].AFI_raw = lo => df[i].AFI.num = FxZero
                /\ df[i].AFI_raw = hi => df[i].AFI.num = FxScale(100, df[i].AFI.den)

\* three rows of two states, the lowest and the highest in one state and a row
\* strictly between them
C3_Witness ==
    /\ InCalculateAfi /\ pc = "normalized" /\ Len(df) = 3
    /\ \E i, j, k \in 1..Len(df) :
          /\ df[i].state = df[k].state /\ df[j].state # df[i].state
          /\ df[i].AFI.num = FxZero
          /\ df[k].AFI.num = FxScale(100, df[k].AFI.den)
          /\ FxLess(FxZero, df[j].AFI.num)
          /\ FxLess(df[j].AFI.num, FxScale(100, df[j].AFI.den))

\* C4: when all AFI_raw values are equal (also for a single row), the rescale
\* step gives every row the same defined AFI value, never NaN.
C4_DegenerateRescale ==
    (InCalculateAfi /\ HasColumn("AFI") /\ ~DistinctRaw) =>
        \A i, j \in 1..Len(df) : ~df[i].AFI.nan /\ df[i].AFI = df[j].AFI

\* the number of rows of t whose AFI is strictly greater than that of row i
GreaterCount(t, i) == Cardinality({j \in 1..Len(t) : AFILess(t[i].AFI, t[j].AFI)})

\* the number of rows of t with the AFI of row i
TieCount(t, i) == Cardinality({j \in 1..Len(t) : t[j].AFI = t[i].AFI})

\* C5: national_rank of every row is 1 plus the number of rows of the whole table
\* with a strictly greater AFI: equal AFI share a rank, the highest AFI has
\* rank 1, and AFI = [90, 90, 50] gets the ranks [1, 1, 3].
C5_NationalMinRank ==
    HasColumn("national_rank") =>
        /\ \A i \in 1..Len(df) : df[i].national_rank = 1 + GreaterCount(df, i)
        /\ \A i, j \in 1..Len(df) : df[i].AFI = df[j].AFI => df[i].national_rank = df[j].national_rank
        /\ \A i \in 1..Len(df) :
              (\A j \in 1..Len(df) : ~AFILess(df[i].AFI, df[j].AFI)) => df[i].national_rank = 1
        /\ Column(df, "AFI") = <<Score(90000), Score(90000), Score(50000)>>
              => Column(df, "national_rank") = <<1, 1, 3>>

C5_Witness ==
    /\ entry = "add_rankings" /\ pc = "done"
    /\ Column(df, "AFI") = <<Score(90000), Score(90000), Score(50000)>>
    /\ Column(df, "national_rank") = <<1, 1, 3>>

NationalRanks == {df[i].national_rank : i \in 1..Len(df)}

DistinctAFI == {df[i].AFI : i \in 1..Len(df)}

\* C6 as stated: national_rank is a dense rank, the set of the ranks assigned is
\* {1, ..., k} for k the number of distinct AFI values.
C6_DenseRank ==
    HasColumn("national_rank") => NationalRanks = 1..Cardinality(DistinctAFI)

\* C6 amended: national_rank is a min rank: the set of the ranks assigned has k
\* elements for k the number of distinct AFI values, its least element is 1, and
\* every rank assigned is 1 plus the number of rows with a smaller rank, so a tie
\* of t rows is followed by a gap of t - 1 ranks.
C6_MinRankValues ==
    HasColumn("national_rank") =>
        /\ Cardinality(NationalRanks) = Cardinality(DistinctAFI)
        /\ 1 \in NationalRanks
        /\ \A r \in NationalRanks :
              r = 1 + Cardinality({j \in 1..Len(df) : df[j].national_rank < r})

C6_Witness ==
    /\ HasColumn("national_rank")
    /\ Cardinality(DistinctAFI) = 2
    /\ NationalRanks = {1, 3}

\* the tables that differ from df only in rows of states other than that of row
\* i, each with the index row i has in it: one such row changed, removed or added
OtherStateVariations(i) ==
    LET others == {j \in 1..Len(df) : df[j].state # df[i].state}
    IN  {<<[df EXCEPT ![j] = [@ EXCEPT !.AFI = v]], i>> : j \in others, v \in DistinctAFI}
        \cup {<<RemoveAt(df, j), IF j < i THEN i - 1 ELSE i>> : j \in others}
        \cup {<<Append(df, [df[i] EXCEPT !.state = st, !.AFI = v]), i>> :
                st \in States \ {df[i].state}, v \in DistinctAFI}

\* C7: state_rank of every row is 1 plus the number of rows of the same state
\* with a strictly greater AFI, and it is the state_rank the row gets in every
\* table that differs only in rows of other states (changed, removed or added).
C7_StateRank ==
    HasColumn("state_rank") =>
        \A i \in 1..Len(df) :
            /\ df[i].state_rank =
                  1 + Cardinality({j \in 1..Len(df) :
                        df[j].state = df[i].state /\ AFILess(df[i].AFI, df[j].AFI)})
            /\ \A v \in OtherStateVariations(i) : state_rank(v[1], v[2]) = df[i].state_rank

C7_Witness ==
    /\ HasColumn("state_rank") /\ Len(df) = 3
    /\ \E i, j \in 1..Len(df) :
          /\ df[i].state # df[j].state
          /\ AFILess(df[i].AFI, df[j].AFI)
          /\ df[i].state_rank = 1
          /\ df[i].national_rank > 1

\* C8: national_percentile of every row is 100 * r / n for n the number of rows
\* and r the descending rank of the row averaged over its ties, that is
\* g + (t + 1) / 2 for g rows strictly greater and t rows tied; it lies in
\* (0, 100], equal AFI get equal percentiles and a strictly greater AFI gets a
\* strictly smaller percentile.
C8_Percentile ==
    HasColumn("national_percentile") =>
        \A i \in 1..Len(df) :
            LET p == df[i].national_percentile
            IN  /\ p.den > 0
                /\ p.num * 2 * Len(df) = 100 * (2 * GreaterCount(df, i) + TieCount(df, i) + 1) * p.den
                /\ p.num > 0
                /\ p.num <= 100 * p.den
                /\ \A j \in 1..Len(df) :
                      LET q == df[j].national_percentile
                      IN  /\ df[i].AFI = df[j].AFI => p.num * q.den = q.num * p.den
                          /\ AFILess(df[j].AFI, df[i].AFI) => p.num * q.den < q.num * p.den

\* AFI = [90, 90, 50]: the percentiles are 50, 50 and 100
C8_Witness ==
    /\ HasColumn("national_percentile")
    /\ Column(df, "AFI") = <<Score(90000), Score(90000), Score(50000)>>
    /\ \A i \in 1..2 : df[i].national_percentile.num = 50 * df[i].national_percentile.den
    /\ df[3].national_percentile.num = 100 * df[3].national_percentile.den

\* the band of a score num / den in [0, 100], closed below and open above, the
\* last one closed: the score reaches 20 * b iff 20 * b * den <= num
Band(a) ==
    LET below(b) == ~FxLeq(FxScale(20 * b, a.den), a.num)
    IN  CASE below(1) -> "Very Low Friction"
          [] ~below(1) /\ below(2) -> "Low Friction"
          [] ~below(2) /\ below(3) -> "Moderate Friction"
          [] ~below(3) /\ below(4) -> "High Friction"
          [] ~below(4) -> "Very High Friction"

InRange(a) == ~a.nan /\ FxLeq(FxZero, a.num) /\ FxLeq(a.num, FxScale(100, a.den))

\* C9: add_categories gives every AFI in [0, 100] the one band it lies in, the
\* bands being [0,20) Very Low, [20,40) Low, [40,60) Moderate, [60,80) High and
\* [80,100] Very High Friction; 19.999 is Very Low, 20.0 is Low, 100 is Very High.
C9_Categories ==
    HasColumn("friction_category") =>
        \A i \in 1..Len(df) :
            InRange(df[i].AFI) =>
                /\ df[i].friction_category = Band(df[i].AFI)
                /\ df[i].AFI = Score(19999) => df[i].friction_category = "Very Low Friction"
                /\ df[i].AFI = Score(20000) => df[i].friction_category = "Low Friction"
                /\ df[i].AFI = Score(100000) => df[i].friction_category = "Very High Friction"

C9_Witness ==
    /\ entry = "add_categories" /\ pc = "done"
    /\ Column(df, "AFI") = <<Score(19999), Score(20000), Score(100000)>>
    /\ Column(df, "friction_category")
          = <<"Very Low Friction", "Low Friction", "Very High Friction">>

MissingColumns == required_columns \ Columns(signals_df)

NegativeColumns ==
    {c \in {"UIS", "RIS", "BSS", "TSD"} \cap Columns(signals_df) :
        \E i \in 1..Len(signals_df) : signals_df[i][c] < 0}

ValidationErrors ==
    {"ValueError: Missing required columns", "ValueError: Negative values found"}

\* C10: validate_signals raises the missing-columns error, naming the missing
\* columns, whenever one of the seven required columns is absent, also when a
\* signal value is negative; it raises the negative-values error when all are
\* present and a signal value is negative; it returns True exactly when all
\* seven are present and no signal value is negative.
C10_ValidateSignals ==
    (InCalculateAfi /\ pc # "start") =>
        /\ MissingColumns # {} =>
              /\ pc = "error"
              /\ error = [kind |-> "ValueError: Missing required columns", detail |-> MissingColumns]
        /\ (MissingColumns = {} /\ NegativeColumns # {}) =>
              /\ pc = "error"
              /\ error.kind = "ValueError: Negative values found"
              /\ error.detail \subseteq NegativeColumns
        /\ error.kind \notin ValidationErrors <=> (MissingColumns = {} /\ NegativeColumns = {})

\* a column is missing and a value of a present signal column is negative
C10_Witness ==
    /\ InCalculateAfi /\ pc = "error"
    /\ MissingColumns # {} /\ NegativeColumns # {}
    /\ error = [kind |-> "ValueError: Missing required columns", detail |-> MissingColumns]

---------------------------------------------------------------------------
(* calculate_afi: the output files *)

\* calculate_afi has ended: it returned df or an exception left it
CalculateAfiEnded == entry = "calculate_afi" /\ pc \in {"done", "error"}

\* the three output tables, each written to the end
AllOutputs ==
    { OutputFile(full_file, Columns(df), TRUE),
      OutputFile(ranked_file, ranked_columns, TRUE),
      OutputFile(index_only_file, index_only_columns, TRUE) }

\* df carries every column of the index and no NaN AFI
FullyPopulated ==
    /\ ranked_columns \cup required_columns \cup {"AFI_raw"} \subseteq Columns(df)
    /\ \A i \in 1..Len(df) : ~df[i].AFI.nan

\* C11: when calculate_afi has ended, whether it returned or raised, either
\* all three output tables (full, ranked, scores only) have been written from
\* a fully populated index table, or no output file has been written at all.
C11_AllOrNothing ==
    CalculateAfiEnded => \/ written = {}
                         \/ written = AllOutputs /\ FullyPopulated

---------------------------------------------------------------------------
(* calculate_afi: the component analysis *)

\* analyze_components has returned inside calculate_afi
Analyzed == InCalculateAfi /\ component_analysis # NoAnalysis

\* C27: the mean weighted contribution the component analysis of
\* calculate_afi reports for a signal is the mean of (weight of the signal *
\* signal value) under the weights calculate_afi was called with, the ones
\* that produced AFI_raw.
C27_ContributionWeights ==
    Analyzed =>
        \A comp \in DOMAIN component_analysis.average_contributions :
            /\ component_analysis.average_contributions[comp].den = Len(df)
            /\ component_analysis.average_contributions[comp].num =
                   FxSum([i \in 1..Len(df) |-> FxScale(df[i][comp], weights[comp])])

---------------------------------------------------------------------------
(* calculate_all_signals: the signal tables *)

\* the four calculate_* functions have returned
SignalsCalculated == InSignals /\ pc \in {"tsd", "done", "error"}

\* calculate_all_signals has returned df
SignalsReturned == InSignals /\ pc = "done"

\* the signals and the table each one was calculated into
SignalNames == {"UIS", "RIS", "BSS", "TSD"}

SignalTableOf(signal) ==
    CASE signal = "UIS" -> uis_df
      [] signal = "RIS" -> ris_df
      [] signal = "BSS" -> bss_df
      [] signal = "TSD" -> tsd_df

\* v is a defined number in [0, 100]
SignalInRange(v) == ~v.nan /\ v.den > 0 /\ 0 <= v.num /\ v.num <= 100 * v.den

\* C12: every value of the signal column returned by calculate_uis,
\* calculate_ris, calculate_bss and calculate_tsd is a defined number in
\* [0, 100], never NaN, also for a single numeric column and for a
\* (state, district) group with a single period.
C12_SignalRange ==
    SignalsCalculated =>
        \A signal \in SignalNames :
            \A i \in 1..Len(SignalTableOf(signal)) :
                SignalInRange(SignalTableOf(signal)[i][signal])

\* the raw column each signal is normalized from
RawColumnOf(signal) ==
    CASE signal = "UIS" -> total_updates(biometric_df, demographic_df)
      [] signal = "RIS" -> repeat_interactions(biometric_df, demographic_df)
      [] signal = "BSS" -> BSS_raw(biometric_df)
      [] signal = "TSD" -> TSD_raw(activity_table(biometric_df, demographic_df,
                                                  enrolment_df))

\* every value of the series is the same number
Constant(s) == s # <<>> /\ \A i, j \in 1..Len(s) : ~s[i].nan /\ s[i] = s[j]

\* C13: when all values of the raw column are identical, every value
\* normalize_column returns is 0, the minimum bound of the 0-100 range, not
\* NaN, and the result has the length and the row positions of the input.
C13_ConstantColumn ==
    SignalsCalculated =>
        \A signal \in SignalNames :
            Constant(RawColumnOf(signal)) =>
                /\ DOMAIN Column(SignalTableOf(signal), signal)
                       = DOMAIN RawColumnOf(signal)
                /\ \A i \in 1..Len(RawColumnOf(signal)) :
                       SignalTableOf(signal)[i][signal] = SignalValue(0, 1)

\* a raw column of several rows with one value has been normalized
C13_Witness ==
    /\ SignalsCalculated
    /\ Len(RawColumnOf("UIS")) >= 2 /\ Constant(RawColumnOf("UIS"))
    /\ Len(RawColumnOf("BSS")) >= 2 /\ Constant(RawColumnOf("BSS"))

\* the rows of t with the key of row r
RowsOfKey(t, r) == {i \in 1..Len(t) : SameKey(t[i], r)}

\* the value a signal has in the returned table for a value of its own table
Filled(v) == IF v.nan THEN SignalValue(0, 1) ELSE v

\* C14: in the table calculate_all_signals returns no UIS, RIS, BSS or TSD
\* value is missing: a key for which a signal was not computed has that
\* signal at 0, and every computed signal value is carried over unchanged.
C14_NoMissingSignal ==
    SignalsReturned =>
        \A signal \in SignalNames :
            LET t == SignalTableOf(signal)
            IN  /\ \A i \in 1..Len(df) :
                       /\ ~df[i][signal].nan
                       /\ IF RowsOfKey(t, df[i]) = {}
                          THEN df[i][signal] = SignalValue(0, 1)
                          ELSE \E j \in RowsOfKey(t, df[i]) :
                                   df[i][signal] = Filled(t[j][signal])
                /\ \A j \in 1..Len(t) :
                       \E i \in RowsOfKey(df, t[j]) :
                           df[i][signal] = Filled(t[j][signal])

\* the returned table has a key of the enrolment dataset only, with UIS, RIS
\* and BSS at 0, and a key of the demographic dataset with a computed UIS
C14_Witness ==
    /\ SignalsReturned
    /\ \E i \in 1..Len(df) :
           /\ RowsOfKey(enrolment_df, df[i]) # {}
           /\ RowsOfKey(biometric_df, df[i]) = {}
           /\ RowsOfKey(demographic_df, df[i]) = {}
           /\ df[i].UIS = SignalValue(0, 1)
           /\ df[i].RIS = SignalValue(0, 1)
           /\ df[i].BSS = SignalValue(0, 1)
    /\ \E i \in 1..Len(df) :
           /\ RowsOfKey(demographic_df, df[i]) # {}
           /\ RowsOfKey(biometric_df, df[i]) = {}
           /\ df[i].BSS = SignalValue(0, 1)
    /\ \E i \in 1..Len(df) : df[i].UIS.num > 0

\* the (state, district, period) keys of the rows of t
KeysOf(t) == {[k \in merge_keys |-> t[i][k]] : i \in 1..Len(t)}

\* C15: the keys of the table calculate_all_signals returns are the union of
\* the keys of the cleaned biometric, demographic and enrolment datasets.
C15_KeyCoverage ==
    SignalsReturned =>
        KeysOf(df) = KeysOf(biometric_df) \cup KeysOf(demographic_df)
                         \cup KeysOf(enrolment_df)

\* the three datasets hold one key each, all different
C15_Witness ==
    /\ SignalsReturned
    /\ Cardinality(KeysOf(df)) = 3
    /\ Cardinality(KeysOf(biometric_df)) = 1
    /\ Cardinality(KeysOf(demographic_df)) = 1
    /\ Cardinality(KeysOf(enrolment_df)) = 1

---------------------------------------------------------------------------
(* main: the index table of the whole pipeline *)

\* calculate_afi has returned the index table df to main
IndexReturned == InMain /\ entry = "calculate_afi" /\ pc = "done"

\* the keys of the three sources, as cleaned
SourceKeys ==
    KeysOf(biometric_df) \cup KeysOf(demographic_df) \cup KeysOf(enrolment_df)

\* C16: end to end, the index table holds exactly one row for every distinct
\* (state, district, period) key of the three sources, also when a raw
\* source holds several different rows of one key.
C16_OneRowPerKey ==
    IndexReturned =>
        /\ KeysOf(df) = SourceKeys
        /\ Len(df) = Cardinality(SourceKeys)

---------------------------------------------------------------------------
(* preprocess_*: the dataset returned *)

\* a preprocess_* function has returned df
Returned == InPreprocess /\ pc = "done"

\* the cells of the count columns of t
CountCells(t) == {t[i][col] : i \in 1..Len(t), col \in numeric_cols(t)}

\* C17: in the dataset a preprocess_* function returns, no value of a count
\* column exceeds the 99th percentile of that column computed on the returned
\* (capped) data.
C17_PostCapPercentile ==
    Returned =>
        \A col \in numeric_cols(df) : \A i \in 1..Len(df) :
            LET p99 == quantile_99(Column(df, col))
            IN  df[i][col].nan \/ p99.nan \/ df[i][col].v <= p99.v

\* C18: running a preprocess_* function on the dataset it returned gives that
\* dataset back: no row dropped, no value capped again.
C18_Idempotent == (Returned /\ run = 2) => df = cleaned

\* C19: the dataset a preprocess_* function returns has no missing value in a
\* count column, also when a whole group or the whole column was missing.
C19_NoMissing == Returned => \A c \in CountCells(df) : ~c.nan

\* the values of column col after the clipping step on t
Clipped(t, col) == Column(clip_negative(t, col), col)

\* C20: the dataset a preprocess_* function returns has no negative value in
\* a count column, and the clipping step turns every negative value into 0
\* and leaves every other value as it was.
C20_NoNegative ==
    /\ Returned => \A c \in CountCells(df) : c.nan \/ c.v >= 0
    /\ (InPreprocess /\ pc = "imputed") =>
           \A col \in numeric_cols(df) : \A i \in 1..Len(df) :
               Clipped(df, col)[i] =
                   IF ~df[i][col].nan /\ df[i][col].v < 0 THEN Num(0)
                   ELSE df[i][col]

\* a file with a negative and a positive count has been preprocessed: the
\* result holds a 0 and a positive count
C20_Witness ==
    /\ Returned /\ run = 1
    /\ \E i \in 1..Len(csv) : csv[i]["Age 5 17"] = Count(-1)
    /\ \E i \in 1..Len(csv) : csv[i]["Age 5 17"] = Count(3)
    /\ Num(0) \in CountCells(df)
    /\ \E c \in CountCells(df) : ~c.nan /\ c.v > 0

---------------------------------------------------------------------------
(* preprocess_*: key columns, duplicates and imputation *)

\* the file read lacks one of the key columns state, district, period
LacksKeyColumn(t) == ~(merge_keys \subseteq Columns(rename_columns(t)))

\* C21: a preprocess_* function run on a raw dataset that lacks one of the
\* key columns state, district or period raises: it returns no cleaned
\* dataset and saves no cleaned copy, with or without missing values.
C21_MissingKeyColumn ==
    (InPreprocess /\ run = 1 /\ LacksKeyColumn(csv)) =>
        pc # "done" /\ written = {}

\* C22: the dataset a preprocess_* function returns has no two rows equal in
\* all columns, also for rows that become equal by key normalization, by
\* imputation or by capping.
C22_NoDuplicateRows ==
    Returned => \A i, j \in 1..Len(df) : i # j => df[i] # df[j]

---------------------------------------------------------------------------
(* calculate_uis, calculate_ris, calculate_tsd: the raw values *)

\* a signal function called on its own has returned
CallReturned(function) == entry = function /\ pc = "done"

\* the sum of the counts dataset t holds for the key of row r, 0 without any
SourceSum(t, r) ==
    LET cells == {<<j, c>> : j \in RowsOfKey(t, r), c \in Columns(t) \ merge_keys}
        RECURSIVE total(_)
        total(S) == IF S = {} THEN 0
                    ELSE LET x == CHOOSE x \in S : TRUE
                         IN  (IF t[x[1]][x[2]].nan THEN 0 ELSE t[x[1]][x[2]].v)
                                 + total(S \ {x})
    IN  total(cells)

\* C23: for every key of the biometric/demographic outer join the raw UIS is
\* 1.5 * (sum of the key's biometric count columns) + (sum of its demographic
\* count columns), a source without the key counting as 0 and every source
\* column counted once on its own side, also when both sources have a count
\* column of the same name.
C23_RawUis ==
    CallReturned("calculate_uis") =>
        LET raw == total_updates(biometric_df, demographic_df)
        IN  /\ Len(raw) = Len(uis_df)
            /\ KeysOf(uis_df) = KeysOf(biometric_df) \cup KeysOf(demographic_df)
            /\ \A i \in 1..Len(uis_df) :
                   raw[i] = Num((3 * SourceSum(biometric_df, uis_df[i])) \div 2
                                    + SourceSum(demographic_df, uis_df[i]))

\* both datasets have the count column age_5_17; one key is in both, with the
\* raw UIS 1.5 * 2 + 1, and one key is in the biometric dataset only
C23_Witness ==
    /\ CallReturned("calculate_uis")
    /\ Columns(biometric_df) = Columns(demographic_df)
    /\ \E i \in 1..Len(uis_df) :
           /\ RowsOfKey(biometric_df, uis_df[i]) # {}
           /\ RowsOfKey(demographic_df, uis_df[i]) # {}
           /\ total_updates(biometric_df, demographic_df)[i] = Num(4 * SignalUnit)
    /\ \E i \in 1..Len(uis_df) : RowsOfKey(demographic_df, uis_df[i]) = {}

\* the biometric/demographic table calculate_ris works on
RisTable == merge(biometric_df, demographic_df, "_x", "_y")

\* the columns of the datasets whose name holds one of the failure keywords
FailureNamed == Columns(RisTable) \cap {"Auth_Failures", "retry_count"}

\* C24: when a column of the merged biometric/demographic table is named
\* after fail, retry, reject, error or repeat, in any letter case, the raw
\* RIS of a row is the sum of exactly those columns; only without such a
\* column is it the standard deviation of the row over all count columns.
C24_RawRis ==
    CallReturned("calculate_ris") =>
        LET raw == repeat_interactions(biometric_df, demographic_df)
        IN  /\ Len(raw) = Len(RisTable)
            /\ \A i \in 1..Len(RisTable) :
                   raw[i] = IF FailureNamed # {}
                            THEN Num(SumSeq(Present(Across(RisTable[i], FailureNamed))))
                            ELSE std(Across(RisTable[i], Columns(RisTable) \ merge_keys))

\* the biometric dataset has the column Auth_Failures and the demographic
\* one the column retry_count; a row with 2 and 2 in them has the raw RIS 4
C24_Witness ==
    /\ CallReturned("calculate_ris")
    /\ FailureNamed = {"Auth_Failures", "retry_count"}
    /\ \E i \in 1..Len(RisTable) :
           /\ RisTable[i].Auth_Failures = Num(2 * SignalUnit)
           /\ RisTable[i].retry_count = Num(2 * SignalUnit)
           /\ repeat_interactions(biometric_df, demographic_df)[i] = Num(4 * SignalUnit)

\* the table calculate_tsd works on
TsdTable == activity_table(biometric_df, demographic_df, enrolment_df)

\* the activity of the key of row r: all its counts in the three datasets
Activity(r) ==
    SourceSum(biometric_df, r) + SourceSum(demographic_df, r)
        + SourceSum(enrolment_df, r)

\* the rows of t of the (state, district) group of row r with an earlier period
EarlierPeriods(t, r) ==
    {j \in 1..Len(t) :
        /\ t[j].state = r.state /\ t[j].district = r.district
        /\ \/ t[j].period[1] < r.period[1]
           \/ t[j].period[1] = r.period[1] /\ t[j].period[2] < r.period[2]}

\* the month-over-month term a row is to have
ExpectedChange(t, r) ==
    IF EarlierPeriods(t, r) = {} THEN 0
    ELSE LET prev == CHOOSE j \in EarlierPeriods(t, r) :
                         EarlierPeriods(t, t[j]) = EarlierPeriods(t, r) \ {j}
             d == Activity(r) - Activity(t[prev])
         IN  IF d < 0 THEN -d ELSE d

---------------------------------------------------------------------------
(* preprocess_*: the imputation *)

\* the dataset as the imputation loop finds it
BeforeImputation == clean_common_columns(csv)

\* the rows of t of the (state, district) group of row i
GroupRows(t, i) ==
    {j \in 1..Len(t) : t[j].state = t[i].state /\ t[j].district = t[i].district}

\* the group of row i has a value in column col
GroupHasValue(t, i, col) == \E j \in GroupRows(t, i) : ~t[j][col].nan

\* the values of column col in the rows of t whose positions are in S
ValuesAt(t, S, col) ==
    LET rows == SelectSeq([j \in 1..Len(t) |-> [at |-> j, cell |-> t[j][col]]],
                          LAMBDA x : x.at \in S)
    IN  [k \in 1..Len(rows) |-> rows[k].cell]

\* C26: the imputation fills a missing value of a numeric column with the
\* median of the column over the rows of its (state, district) group when the
\* group has a value, with the median of the whole column (as filled by the
\* groups) when the whole group is missing, and leaves the values that were
\* not missing as they were.
C26_Imputation ==
    (InPreprocess /\ pc = "imputed") =>
        LET t == BeforeImputation
        IN  /\ Len(df) = Len(t)
            /\ \A i \in 1..Len(t) : \A col \in numeric_cols(t) :
                   df[i][col] =
                       IF ~t[i][col].nan THEN t[i][col]
                       ELSE IF GroupHasValue(t, i, col)
                       THEN median(ValuesAt(t, GroupRows(t, i), col))
                       ELSE median(ValuesAt(df, {j \in 1..Len(t) : GroupHasValue(t, j, col)},
                                            col))

\* a missing value in a group with a value and a group missing as a whole,
\* both filled
C26_Witness ==
    /\ InPreprocess /\ pc = "imputed" /\ run = 1
    /\ \E i, j \in 1..Len(df) :
           /\ BeforeImputation[i].age_5_17.nan
           /\ GroupHasValue(BeforeImputation, i, "age_5_17")
           /\ BeforeImputation[j].age_5_17.nan
           /\ ~GroupHasValue(BeforeImputation, j, "age_5_17")
           /\ ~df[i].age_5_17.nan /\ ~df[j].age_5_17.nan

---------------------------------------------------------------------------
(* calculate_afi: the range of the raw composite; ranks and categories *)

\* every signal of every row of t lies in [0, 100]
SignalsWithin(t) ==
    \A i \in 1..Len(t) : \A k \in DOMAIN signal_cols :
        0 <= t[i][signal_cols[k]] /\ t[i][signal_cols[k]] <= 100

RawWithin(x) == FxLeq(FxZero, x) /\ FxLeq(x, FxScale(100, FxOne))

\* C28: for every weights mapping that passes the weight check of
\* calculate_afi_raw and every signal table that passes validate_signals with
\* all its signals in [0, 100], every AFI_raw lies in [0, 100].
C28_RawRange ==
    (InCalculateAfi /\ HasColumn("AFI_raw") /\ SignalsWithin(signals_df)) =>
        \A i \in 1..Len(df) : RawWithin(df[i].AFI_raw)

StatesOf(t) == {t[i].state : i \in 1..Len(t)}

\* C29: in every table add_rankings produces, state_rank <= national_rank for
\* every row, and every state has at least one row with state_rank = 1.
C29_StateRankBound ==
    (HasColumn("state_rank") /\ HasColumn("national_rank")) =>
        /\ \A i \in 1..Len(df) : df[i].state_rank <= df[i].national_rank
        /\ \A st \in StatesOf(df) :
              \E i \in 1..Len(df) : df[i].state = st /\ df[i].state_rank = 1

C29_Witness ==
    /\ entry = "add_rankings" /\ pc = "done" /\ Len(df) = 3
    /\ Cardinality(StatesOf(df)) = 2
    /\ \E i, j \in 1..Len(df) :
          /\ df[i].state # df[j].state
          /\ df[i].state_rank = 1 /\ df[i].national_rank = 3
          /\ df[j].state_rank = 1 /\ df[j].national_rank = 1

\* the place of a category among the five bands, the lowest band first
BandNumber(category) ==
    CASE category = "Very Low Friction" -> 1
      [] category = "Low Friction" -> 2
      [] category = "Moderate Friction" -> 3
      [] category = "High Friction" -> 4
      [] category = "Very High Friction" -> 5

\* C30: in every index table calculate_afi produces, a row with a smaller
\* national_rank has the same or a higher band than a row with a greater one,
\* and rows of equal national_rank have equal AFI and equal friction_category.
C30_RankCategory ==
    (InCalculateAfi /\ HasColumn("friction_category")) =>
        \A a, b \in 1..Len(df) :
            /\ df[a].national_rank < df[b].national_rank =>
                  BandNumber(df[a].friction_category) >= BandNumber(df[b].friction_category)
            /\ df[a].national_rank = df[b].national_rank =>
                  /\ df[a].AFI = df[b].AFI
                  /\ df[a].friction_category = df[b].friction_category

C30_Witness ==
    /\ InCalculateAfi /\ HasColumn("friction_category") /\ Len(df) = 3
    /\ \E a, b, c \in 1..Len(df) :
          /\ a # b
          /\ df[a].national_rank = 1 /\ df[b].national_rank = 1
          /\ df[c].national_rank = 3
          /\ df[a].friction_category = "Very High Friction"
          /\ df[c].friction_category = "Very Low Friction"

====
